---- MODULE Spec2Model ----
(***************************************************************************)
(* Workflow orchestration engine of the loan-processing multi-agent        *)
(* system: OrchestrationContext, AgentExecutionService,                    *)
(* HandoffValidationService, SequentialPatternExecutor, ProcessingEngine   *)
(* and the SafeConditionEvaluator the last three rely on.                  *)
(*                                                                         *)
(* Text (condition expressions, stage names, field names, error messages)  *)
(* is modelled as sequences of one-character strings, so that strip,       *)
(* split, the regular expression of the evaluator, the f-string keys of    *)
(* the merged result map and the [:200] slice of the error decision are    *)
(* computed as the code computes them.                                     *)
(***************************************************************************)
EXTENDS Integers, Sequences, FiniteSets, TLC

(***************************************************************************)
(* Characters and text helpers                                             *)
(***************************************************************************)

\* Printable ASCII in code-point order (str comparison is by code point);
\* "grave" stands for the backquote, which no text of the model uses.
AsciiOrder ==
  << " ", "!", "\"", "#", "$", "%", "&", "'", "(", ")", "*", "+", ",", "-", ".", "/",
     "0", "1", "2", "3", "4", "5", "6", "7", "8", "9", ":", ";", "<", "=", ">", "?",
     "@", "A", "B", "C", "D", "E", "F", "G", "H", "I", "J", "K", "L", "M", "N", "O",
     "P", "Q", "R", "S", "T", "U", "V", "W", "X", "Y", "Z", "[", "\\", "]", "^", "_",
     "grave", "a", "b", "c", "d", "e", "f", "g", "h", "i", "j", "k", "l", "m", "n", "o",
     "p", "q", "r", "s", "t", "u", "v", "w", "x", "y", "z", "{", "|", "}", "~" >>

CharCode(c) == CHOOSE i \in 1..Len(AsciiOrder) : AsciiOrder[i] = c

DigitChars == {"0", "1", "2", "3", "4", "5", "6", "7", "8", "9"}

LowerChars ==
  {"a", "b", "c", "d", "e", "f", "g", "h", "i", "j", "k", "l", "m",
   "n", "o", "p", "q", "r", "s", "t", "u", "v", "w", "x", "y", "z"}

UpperChars ==
  {"A", "B", "C", "D", "E", "F", "G", "H", "I", "J", "K", "L", "M",
   "N", "O", "P", "Q", "R", "S", "T", "U", "V", "W", "X", "Y", "Z"}

\* the class \w of the condition pattern
WordChars == LowerChars \cup UpperChars \cup DigitChars \cup {"_"}

\* the class \s of the condition pattern and of str.strip()
SpaceChars == {" ", "\t", "\n"}

DigitValue(c) == CharCode(c) - CharCode("0")

ToLowerChar(c) ==
  IF c \in UpperChars THEN AsciiOrder[CharCode(c) + 32] ELSE c

ToLower(s) == [i \in 1..Len(s) |-> ToLowerChar(s[i])]

\* s[a:b] of Python with 0 <= a, b (0-based, b exclusive)
Slice(s, a, b) ==
  LET hi == IF b < Len(s) THEN b ELSE Len(s)
  IN  IF a >= hi THEN << >> ELSE [i \in 1..(hi - a) |-> s[a + i]]

\* s[a:]
From(s, a) == Slice(s, a, Len(s))

StartsWith(s, p) == Len(p) <= Len(s) /\ Slice(s, 0, Len(p)) = p

EndsWith(s, p) == Len(p) <= Len(s) /\ From(s, Len(s) - Len(p)) = p

\* the text p occurs in s at 0-based offset k
OccursAt(s, p, k) == k + Len(p) <= Len(s) /\ Slice(s, k, k + Len(p)) = p

\* p in s (substring test of str.__contains__)
Contains(s, p) == \E k \in 0..Len(s) : OccursAt(s, p, k)

\* str.find: offset of the first occurrence, -1 when there is none
Find(s, p) ==
  IF Contains(s, p)
    THEN CHOOSE k \in 0..Len(s) :
           OccursAt(s, p, k) /\ \A j \in 0..(k - 1) : ~OccursAt(s, p, j)
    ELSE -1

CountLeading(s, cls) ==
  IF \A i \in 1..Len(s) : s[i] \in cls
    THEN Len(s)
    ELSE (CHOOSE i \in 1..Len(s) : s[i] \notin cls /\ \A j \in 1..(i - 1) : s[j] \in cls) - 1

CountTrailing(s, cls) ==
  IF \A i \in 1..Len(s) : s[i] \in cls
    THEN Len(s)
    ELSE Len(s) - (CHOOSE i \in 1..Len(s) : s[i] \notin cls /\ \A j \in (i + 1)..Len(s) : s[j] \in cls)

\* str.strip()
Strip(s) ==
  IF \A i \in 1..Len(s) : s[i] \in SpaceChars
    THEN << >>
    ELSE Slice(s, CountLeading(s, SpaceChars), Len(s) - CountTrailing(s, SpaceChars))

\* str.split(sep) for a non-empty separator: the pieces between the
\* non-overlapping occurrences of sep, scanned left to right
RECURSIVE Split(_, _)
Split(s, sep) ==
  IF ~Contains(s, sep) THEN << s >>
  ELSE << Slice(s, 0, Find(s, sep)) >> \o Split(From(s, Find(s, sep) + Len(sep)), sep)

RECURSIVE Pow10(_)
Pow10(k) == IF k = 0 THEN 1 ELSE 10 * Pow10(k - 1)

\* str(n) for a non-negative integer
RECURSIVE NatToText(_)
NatToText(n) ==
  IF n < 10 THEN << AsciiOrder[CharCode("0") + n] >>
  ELSE NatToText(n \div 10) \o << AsciiOrder[CharCode("0") + (n % 10)] >>

(***************************************************************************)
(* Values of result maps and of parsed literals                            *)
(*   t: "int" | "float" | "bool" | "none" | "str" | "list"                 *)
(*   n, d: the number n / 10^d (bool: 0 or 1);  s: text;  l: list items    *)
(***************************************************************************)

IntV(n) == [t |-> "int", n |-> n, d |-> 0, s |-> << >>, l |-> << >>]

FloatV(m, d) == [t |-> "float", n |-> m, d |-> d, s |-> << >>, l |-> << >>]

BoolV(b) == [t |-> "bool", n |-> IF b THEN 1 ELSE 0, d |-> 0, s |-> << >>, l |-> << >>]

NoneV == [t |-> "none", n |-> 0, d |-> 0, s |-> << >>, l |-> << >>]

StrV(s) == [t |-> "str", n |-> 0, d |-> 0, s |-> s, l |-> << >>]

ListV(l) == [t |-> "list", n |-> 0, d |-> 0, s |-> << >>, l |-> l]

\* int, float and bool compare with each other by numeric value
IsNumber(v) == v.t \in {"int", "float", "bool"}

NumLess(a, b) == a.n * Pow10(b.d) < b.n * Pow10(a.d)

NumEqual(a, b) == a.n * Pow10(b.d) = b.n * Pow10(a.d)

\* a == b
RECURSIVE PyEq(_, _)
PyEq(a, b) ==
  IF IsNumber(a) /\ IsNumber(b) THEN NumEqual(a, b)
  ELSE IF a.t # b.t THEN FALSE
  ELSE IF a.t = "str" THEN a.s = b.s
  ELSE IF a.t = "none" THEN TRUE
  ELSE Len(a.l) = Len(b.l) /\ \A i \in 1..Len(a.l) : PyEq(a.l[i], b.l[i])

\* lexicographic order of str by code point
RECURSIVE TextLess(_, _)
TextLess(x, y) ==
  IF y = << >> THEN FALSE
  ELSE IF x = << >> THEN TRUE
  ELSE IF Head(x) = Head(y) THEN TextLess(Tail(x), Tail(y))
  ELSE CharCode(Head(x)) < CharCode(Head(y))

\* a < b: "T", "F", or "E" when Python raises TypeError
RECURSIVE PyLt(_, _)
PyLt(a, b) ==
  IF IsNumber(a) /\ IsNumber(b) THEN (IF NumLess(a, b) THEN "T" ELSE "F")
  ELSE IF a.t = "str" /\ b.t = "str" THEN (IF TextLess(a.s, b.s) THEN "T" ELSE "F")
  ELSE IF a.t = "list" /\ b.t = "list" THEN
    LET m == IF Len(a.l) < Len(b.l) THEN Len(a.l) ELSE Len(b.l)
        diff == {i \in 1..m : ~PyEq(a.l[i], b.l[i])}
    IN  IF diff = {} THEN (IF Len(a.l) < Len(b.l) THEN "T" ELSE "F")
        ELSE LET i == CHOOSE i \in diff : \A j \in diff : i <= j
             IN  PyLt(a.l[i], b.l[i])
  ELSE "E"

\* a <= b
RECURSIVE PyLe(_, _)
PyLe(a, b) ==
  IF IsNumber(a) /\ IsNumber(b) THEN (IF NumLess(b, a) THEN "F" ELSE "T")
  ELSE IF a.t = "str" /\ b.t = "str" THEN (IF TextLess(b.s, a.s) THEN "F" ELSE "T")
  ELSE IF a.t = "list" /\ b.t = "list" THEN
    LET m == IF Len(a.l) < Len(b.l) THEN Len(a.l) ELSE Len(b.l)
        diff == {i \in 1..m : ~PyEq(a.l[i], b.l[i])}
    IN  IF diff = {} THEN (IF Len(a.l) <= Len(b.l) THEN "T" ELSE "F")
        ELSE LET i == CHOOSE i \in diff : \A j \in diff : i <= j
             IN  PyLe(a.l[i], b.l[i])
  ELSE "E"

\* a in b
PyIn(a, b) ==
  IF b.t = "list" THEN (IF \E i \in 1..Len(b.l) : PyEq(a, b.l[i]) THEN "T" ELSE "F")
  ELSE IF b.t = "str" THEN
    (IF a.t = "str" THEN (IF Contains(b.s, a.s) THEN "T" ELSE "F") ELSE "E")
  ELSE "E"

Negate(r) == IF r = "T" THEN "F" ELSE IF r = "F" THEN "T" ELSE "E"

\* the operator texts, in the order of the alternation of the condition pattern
OpGe == << ">", "=" >>
OpLe == << "<", "=" >>
OpEq == << "=", "=" >>
OpNe == << "!", "=" >>
OpGt == << ">" >>
OpLt == << "<" >>
OpIn == << "i", "n" >>
OpNot == << "n", "o", "t" >>

\* SafeConditionEvaluator.OPERATORS: the keys
OPERATORS == {OpGt, OpLt, OpGe, OpLe, OpEq, OpNe, OpIn, << "n", "o", "t", " ", "i", "n" >>}

\* SafeConditionEvaluator.OPERATORS[op](a, b)
ApplyOperator(op, a, b) ==
  IF op = OpGt THEN PyLt(b, a)
  ELSE IF op = OpLt THEN PyLt(a, b)
  ELSE IF op = OpGe THEN PyLe(b, a)
  ELSE IF op = OpLe THEN PyLe(a, b)
  ELSE IF op = OpEq THEN (IF PyEq(a, b) THEN "T" ELSE "F")
  ELSE IF op = OpNe THEN (IF PyEq(a, b) THEN "F" ELSE "T")
  ELSE IF op = OpIn THEN PyIn(a, b)
  ELSE Negate(PyIn(a, b))

(***************************************************************************)
(* SafeConditionEvaluator                                                  *)
(***************************************************************************)

\* digits with single underscores between them, as int() and float() accept
DigitsOK(s) ==
  /\ s # << >>
  /\ s[1] \in DigitChars
  /\ s[Len(s)] \in DigitChars
  /\ \A i \in 1..Len(s) : s[i] \in DigitChars \cup {"_"}
  /\ \A i \in 1..(Len(s) - 1) : ~(s[i] = "_" /\ s[i + 1] = "_")

RECURSIVE DigitsValue(_)
DigitsValue(s) ==
  IF s = << >> THEN 0
  ELSE IF s[Len(s)] = "_" THEN DigitsValue(Slice(s, 0, Len(s) - 1))
  ELSE 10 * DigitsValue(Slice(s, 0, Len(s) - 1)) + DigitValue(s[Len(s)])

CountDigits(s) == Cardinality({i \in 1..Len(s) : s[i] \in DigitChars})

HasSign(s) == s # << >> /\ s[1] \in {"+", "-"}

Unsigned(s) == IF HasSign(s) THEN Tail(s) ELSE s

SignOf(s) == IF s # << >> /\ s[1] = "-" THEN -1 ELSE 1

\* the mutant without integers
IsIntTextNever(s) == FALSE

\* int(value_str) does not raise ValueError
IsIntText(s) == DigitsOK(Unsigned(s))

IntTextValue(s) == SignOf(s) * DigitsValue(Unsigned(s))

\* the parts of a float literal: mantissa text and exponent text
ExpAt(s) == {i \in 1..Len(s) : s[i] \in {"e", "E"}}

MantissaText(s) ==
  IF ExpAt(s) = {} THEN Unsigned(s)
  ELSE Slice(Unsigned(s), 0, (CHOOSE i \in ExpAt(Unsigned(s)) : TRUE) - 1)

ExponentText(s) ==
  IF ExpAt(s) = {} THEN << "0" >>
  ELSE From(Unsigned(s), CHOOSE i \in ExpAt(Unsigned(s)) : TRUE)

IntPart(m) == Slice(m, 0, Find(m, << "." >>))

FracPart(m) == From(m, Find(m, << "." >>) + 1)

\* float(value_str) does not raise ValueError, for a text that contains "."
IsFloatText(s) ==
  /\ Cardinality(ExpAt(s)) <= 1
  /\ \E m \in {MantissaText(s)} :
       /\ Cardinality({i \in 1..Len(m) : m[i] = "."}) = 1
       /\ \E int_part \in {IntPart(m)}, frac_part \in {FracPart(m)} :
            /\ int_part = << >> \/ DigitsOK(int_part)
            /\ frac_part = << >> \/ DigitsOK(frac_part)
            /\ int_part # << >> \/ frac_part # << >>
  /\ IsIntText(ExponentText(s))

\* the float mant * 10^shift
Scaled(mant, shift) == IF shift >= 0 THEN FloatV(mant * Pow10(shift), 0) ELSE FloatV(mant, -shift)

\* the float with sign, integer digits, fraction digits and exponent
FloatOfParts(sign, int_part, frac_part, exponent) ==
  Scaled(sign * (DigitsValue(int_part) * Pow10(CountDigits(frac_part)) + DigitsValue(frac_part)),
         exponent - CountDigits(frac_part))

FloatTextValue(s) ==
  FloatOfParts(SignOf(s), IntPart(MantissaText(s)), FracPart(MantissaText(s)),
               IntTextValue(ExponentText(s)))

\* SafeConditionEvaluator._parse_value
RECURSIVE parse_stripped(_), parse_items(_)
parse_stripped(value_str) ==
  IF \/ StartsWith(value_str, << "\"" >>) /\ EndsWith(value_str, << "\"" >>)
     \/ StartsWith(value_str, << "'" >>) /\ EndsWith(value_str, << "'" >>)
    THEN StrV(Slice(value_str, 1, Len(value_str) - 1))
  ELSE IF StartsWith(value_str, << "[" >>) /\ EndsWith(value_str, << "]" >>)
    THEN (IF Strip(Slice(value_str, 1, Len(value_str) - 1)) = << >> THEN ListV(<< >>)
          ELSE ListV(parse_items(Split(Slice(value_str, 1, Len(value_str) - 1), << "," >>))))
  ELSE IF ~Contains(value_str, << "." >>) /\ IsIntText(value_str)
    THEN IntV(IntTextValue(value_str))
  ELSE IF Contains(value_str, << "." >>) /\ IsFloatText(value_str)
    THEN FloatTextValue(value_str)
  ELSE IF ToLower(value_str) = << "t", "r", "u", "e" >> THEN BoolV(TRUE)
  ELSE IF ToLower(value_str) = << "f", "a", "l", "s", "e" >> THEN BoolV(FALSE)
  ELSE IF ToLower(value_str) = << "n", "o", "n", "e" >> THEN NoneV
  ELSE StrV(value_str)

\* [cls._parse_value(item.strip()) for item in items_str.split(',')]
parse_items(items) == [i \in 1..Len(items) |-> parse_stripped(Strip(items[i]))]

parse_value(raw) == parse_stripped(Strip(raw))

\* the alternation (>=|<=|==|!=|>|<|in|not\s+in), in its order
OpAlternatives == << OpGe, OpLe, OpEq, OpNe, OpGt, OpLt, OpIn, OpNot >>

\* text matched by alternative o at the head of rest, << >> when it does not match
OpMatchText(rest, o) ==
  IF OpAlternatives[o] # OpNot
    THEN (IF StartsWith(rest, OpAlternatives[o]) THEN OpAlternatives[o] ELSE << >>)
  ELSE IF ~StartsWith(rest, OpNot) THEN << >>
  ELSE LET k == CountLeading(From(rest, 3), SpaceChars)
       IN  IF k >= 1 /\ StartsWith(From(rest, 3 + k), OpIn)
             THEN Slice(rest, 0, 3 + k + 2) ELSE << >>

\* the ways ^(\w+)\s*(op)\s*(.+)$ can match: k word characters, j spaces,
\* alternative o, and a non-empty remainder for (.+)
MatchAttempts(condition) ==
  {a \in UNION {{k} \X (0..CountLeading(From(condition, k), SpaceChars)) \X (1..Len(OpAlternatives)) :
                  k \in 1..CountLeading(condition, WordChars)} :
     \E op \in {OpMatchText(From(condition, a[1] + a[2]), a[3])} :
       op # << >> /\ Len(condition) - (a[1] + a[2]) > Len(op)}

\* the regular expression engine tries the longest \w+ first, then the longest
\* \s*, then the alternatives from left to right
AttemptBefore(a, b) ==
  \/ a[1] > b[1]
  \/ a[1] = b[1] /\ a[2] > b[2]
  \/ a[1] = b[1] /\ a[2] = b[2] /\ a[3] <= b[3]

FirstAttempt(attempts) == CHOOSE a \in attempts : \A b \in attempts : AttemptBefore(a, b)

\* group 3 in the text after the operator: \s* takes the spaces, but leaves
\* one character for (.+)
ValueGroup(tail) ==
  From(tail, IF CountLeading(tail, SpaceChars) = Len(tail) THEN Len(tail) - 1
             ELSE CountLeading(tail, SpaceChars))

\* the groups of attempt a, whose alternative matched the text op
GroupsOf(condition, a, op) ==
  [field_name |-> Slice(condition, 0, a[1]),
   op |-> op,
   value_str |-> ValueGroup(From(condition, a[1] + a[2] + Len(op)))]

GroupsAt(condition, a) == GroupsOf(condition, a, OpMatchText(From(condition, a[1] + a[2]), a[3]))

\* match.groups() of re.match(pattern, condition)
MatchGroups(condition) == GroupsAt(condition, FirstAttempt(MatchAttempts(condition)))

\* the mutant that reads a field that is not among the values as a condition
\* that does not hold (context.get instead of the check and ValueError)
CompareMissingFalse(g, context) ==
  IF Strip(g.op) \notin OPERATORS THEN "E"
  ELSE IF g.field_name \notin DOMAIN context THEN "F"
  ELSE ApplyOperator(Strip(g.op), context[g.field_name], parse_value(Strip(g.value_str)))

\* _evaluate_simple_condition after the match, with g = match.groups()
Compare(g, context) ==
  IF Strip(g.op) \notin OPERATORS THEN "E"
  ELSE IF g.field_name \notin DOMAIN context THEN "E"
  ELSE ApplyOperator(Strip(g.op), context[g.field_name], parse_value(Strip(g.value_str)))

\* SafeConditionEvaluator._evaluate_simple_condition: "T", "F", or "E" when it
\* raises ValueError
evaluate_simple_condition(condition, context) ==
  IF Strip(condition) = << >> THEN "F"
  ELSE IF MatchAttempts(condition) = {} THEN "E"
  ELSE Compare(MatchGroups(condition), context)

\* all() and any() stop at the first item that decides them; an exception
\* ("E") ends them as well
AndThen(r, rest) == IF r = "T" THEN rest ELSE r

OrElse(r, rest) == IF r = "F" THEN rest ELSE r

\* all(_evaluate_simple_condition(part.strip(), context) for part in parts)
RECURSIVE AllParts(_, _)
AllParts(parts, context) ==
  IF parts = << >> THEN "T"
  ELSE AndThen(evaluate_simple_condition(Strip(Head(parts)), context),
               AllParts(Tail(parts), context))

\* any(_evaluate_simple_condition(part.strip(), context) for part in parts)
RECURSIVE AnyPart(_, _)
AnyPart(parts, context) ==
  IF parts = << >> THEN "F"
  ELSE OrElse(evaluate_simple_condition(Strip(Head(parts)), context),
              AnyPart(Tail(parts), context))

\* evaluate_condition after condition = condition.strip()
evaluate_stripped(condition, context) ==
  IF Contains(condition, << " ", "a", "n", "d", " " >>)
    THEN AllParts(Split(condition, << " ", "a", "n", "d", " " >>), context)
  ELSE IF Contains(condition, << " ", "o", "r", " " >>)
    THEN AnyPart(Split(condition, << " ", "o", "r", " " >>), context)
  ELSE evaluate_simple_condition(condition, context)

\* the condition None, which is no str: the one sequence whose item is no
\* character
NoneCondition == << "None" >>

\* the mutant without "if not condition or not isinstance(condition, str)"
evaluate_condition_unguarded(condition, context) ==
  evaluate_stripped(Strip(condition), context)

\* SafeConditionEvaluator.evaluate_condition
evaluate_condition(condition, context) ==
  IF condition = << >> \/ condition = NoneCondition THEN "F"
  ELSE evaluate_stripped(Strip(condition), context)

(***************************************************************************)
(* Pattern configuration (the parsed YAML) and its validation              *)
(*   pattern: [exists, keys, pattern_type, agents, handoff_rules,          *)
(*             decision_matrix]                                            *)
(*   agent:   [type, keys, timeout_seconds, success_conditions, depends_on]*)
(*   rule:    [from, to, conditions]                                       *)
(*   entry:   [decision_type, has_description, description, conditions]    *)
(***************************************************************************)

Intake == << "i", "n", "t", "a", "k", "e" >>
Credit == << "c", "r", "e", "d", "i", "t" >>
Income == << "i", "n", "c", "o", "m", "e" >>
Risk == << "r", "i", "s", "k" >>

\* the type of an agent that is not among these four
Fraud == << "f", "r", "a", "u", "d" >>

\* the agent types of agents.yaml, which ConfigurationLoader.get_agent_config knows
KnownAgentTypes == {Intake, Credit, Income, Risk}

TextSequential == << "s", "e", "q", "u", "e", "n", "t", "i", "a", "l" >>

\* ProcessingEngine._register_default_executors: the registered pattern types
pattern_executors == {TextSequential}

\* "; ".join(texts)
RECURSIVE Join(_, _)
Join(texts, sep) ==
  IF texts = << >> THEN << >>
  ELSE IF Len(texts) = 1 THEN texts[1]
  ELSE texts[1] \o sep \o Join(Tail(texts), sep)

\* the concatenation of the message lists f(1), ..., f(n)
RECURSIVE FlatMap(_, _)
FlatMap(n, f) == IF n = 0 THEN << >> ELSE FlatMap(n - 1, f) \o f[n]

KeyText(k) ==
  IF k = "name" THEN << "n", "a", "m", "e" >>
  ELSE IF k = "pattern_type" THEN << "p", "a", "t", "t", "e", "r", "n", "_", "t", "y", "p", "e" >>
  ELSE IF k = "version" THEN << "v", "e", "r", "s", "i", "o", "n" >>
  ELSE IF k = "agents" THEN << "a", "g", "e", "n", "t", "s" >>
  ELSE IF k = "type" THEN << "t", "y", "p", "e" >>
  ELSE IF k = "required" THEN << "r", "e", "q", "u", "i", "r", "e", "d" >>
  ELSE << "t", "i", "m", "e", "o", "u", "t", "_", "s", "e", "c", "o", "n", "d", "s" >>

\* PatternExecutor._validate_base_config
validate_base_config(pattern_config) ==
  LET required_fields == << "name", "pattern_type", "version", "agents" >>
      agent_required == << "type", "name", "required", "timeout_seconds" >>
      agents == pattern_config.agents
      missing == FlatMap(Len(required_fields),
                   [f \in 1..Len(required_fields) |->
                      IF required_fields[f] \in pattern_config.keys THEN << >>
                      ELSE << << "M", "i", "s", "s", "i", "n", "g", " ", "r", "e", "q", "u",
                            "i", "r", "e", "d", " ", "f", "i", "e", "l", "d", ":",
                            " " >> \o KeyText(required_fields[f]) >>])
      agent_errors(k) ==
        IF ~agents[k].is_dict
          THEN << << "A", "g", "e", "n", "t", " " >> \o NatToText(k - 1) \o << " ", "m", "u",
                "s", "t", " ", "b", "e", " ", "a", " ", "d", "i", "c", "t", "i", "o", "n", "a",
                "r", "y" >> >>
        ELSE
          FlatMap(Len(agent_required),
            [f \in 1..Len(agent_required) |->
               IF agent_required[f] \in agents[k].keys THEN << >>
               ELSE << << "A", "g", "e", "n", "t", " " >> \o NatToText(k - 1) \o << " ", "m",
                     "i", "s", "s", "i", "n", "g", " ", "r", "e", "q", "u", "i", "r", "e", "d",
                     " ", "f", "i", "e", "l", "d", ":", " " >>
                         \o KeyText(agent_required[f]) >>])
          \o (IF "type" \in agents[k].keys /\ agents[k].type \notin KnownAgentTypes
                THEN << << "U", "n", "k", "n", "o", "w", "n", " ", "a", "g", "e", "n", "t", " ",
                      "t", "y", "p", "e", ":", " " >> \o agents[k].type >> ELSE << >>)
  IN  missing \o
      (IF "agents" \notin pattern_config.keys THEN << >>
       ELSE IF pattern_config.agents_type # "list" \/ Len(agents) = 0
         THEN << << "'", "a", "g", "e", "n", "t", "s", "'", " ", "m", "u", "s", "t", " ", "b",
               "e", " ", "a", " ", "n", "o", "n", "-", "e", "m", "p", "t", "y", " ", "l", "i",
               "s", "t" >> >>
       ELSE FlatMap(Len(agents), [k \in 1..Len(agents) |-> agent_errors(k)]))

\* pattern_config.get("agents", [])
GetAgents(pattern_config) ==
  IF "agents" \in pattern_config.keys THEN pattern_config.agents ELSE << >>

\* pattern_config.get("handoff_rules", [])
GetHandoffRules(pattern_config) ==
  IF "handoff_rules" \in pattern_config.keys THEN pattern_config.handoff_rules ELSE << >>

\* pattern_config.get("decision_matrix", {})
GetDecisionMatrix(pattern_config) ==
  IF "decision_matrix" \in pattern_config.keys THEN pattern_config.decision_matrix ELSE << >>

\* the messages of _validate_handoff_rules about rule["conditions"]
ConditionsErrors(rule, k) ==
  IF "conditions" \notin rule.keys THEN << >>
  ELSE IF rule.conditions_type # "list"
    THEN << << "H", "a", "n", "d", "o", "f", "f", " ", "r", "u", "l", "e",
          " " >> \o NatToText(k - 1) \o << ":", " ", "'", "c", "o", "n", "d", "i", "t", "i",
          "o", "n", "s", "'", " ", "m", "u", "s", "t", " ", "b", "e", " ", "a", " ", "l", "i",
          "s", "t" >> >>
  ELSE FlatMap(Len(rule.conditions),
         [j \in 1..Len(rule.conditions) |->
            IF rule.conditions[j] # NoneCondition THEN << >>
            ELSE << << "H", "a", "n", "d", "o", "f", "f", " ", "r", "u", "l", "e",
                  " " >> \o NatToText(k - 1) \o << ",", " ", "c", "o", "n", "d", "i", "t", "i",
                  "o", "n", " " >>
                      \o NatToText(j - 1) \o << ":", " ", "m", "u", "s", "t", " ", "b", "e",
                            " ", "a", " ", "s", "t", "r", "i", "n", "g" >> >>])

\* SequentialPatternExecutor._validate_handoff_rules
validate_handoff_rules(handoff_rules, pattern_config) ==
  LET agent_types == {a.type : a \in {GetAgents(pattern_config)[k] : k \in 1..Len(GetAgents(pattern_config))}}
      rule_errors(k) ==
        IF "from" \notin handoff_rules[k].keys
          THEN << << "H", "a", "n", "d", "o", "f", "f", " ", "r", "u", "l", "e",
                " " >> \o NatToText(k - 1) \o << " ", "m", "i", "s", "s", "i", "n", "g", " ",
                "'", "f", "r", "o", "m", "'", " ", "f", "i", "e", "l", "d" >> >>
        ELSE IF "to" \notin handoff_rules[k].keys
          THEN << << "H", "a", "n", "d", "o", "f", "f", " ", "r", "u", "l", "e",
                " " >> \o NatToText(k - 1) \o << " ", "m", "i", "s", "s", "i", "n", "g", " ",
                "'", "t", "o", "'", " ", "f", "i", "e", "l", "d" >> >>
        ELSE
          (IF handoff_rules[k].from \in agent_types THEN << >>
           ELSE << << "H", "a", "n", "d", "o", "f", "f", " ", "r", "u", "l", "e",
                 " " >> \o NatToText(k - 1) \o << ":", " ", "u", "n", "k", "n", "o", "w", "n",
                 " ", "'", "f", "r", "o", "m", "'", " ", "a", "g", "e", "n", "t", " ", "'" >>
                     \o handoff_rules[k].from \o << "'" >> >>)
          \o (IF handoff_rules[k].to \in agent_types THEN << >>
              ELSE << << "H", "a", "n", "d", "o", "f", "f", " ", "r", "u", "l", "e",
                    " " >> \o NatToText(k - 1) \o << ":", " ", "u", "n", "k", "n", "o", "w",
                    "n", " ", "'", "t", "o", "'", " ", "a", "g", "e", "n", "t", " ", "'" >>
                        \o handoff_rules[k].to \o << "'" >> >>)
          \o ConditionsErrors(handoff_rules[k], k)
  IN  FlatMap(Len(handoff_rules), [k \in 1..Len(handoff_rules) |-> rule_errors(k)])

\* the mutant of the dependency check that asks nothing of a later agent
validate_first_dependencies(agents) ==
  IF agents # << >> /\ agents[1].depends_on # << >>
    THEN << << "F", "i", "r", "s", "t", " ", "a", "g", "e", "n", "t", " ",
          "'" >> \o agents[1].type \o << "'", " ", "s", "h", "o", "u", "l", "d", " ", "n", "o",
          "t", " ", "h", "a", "v", "e", " ", "d", "e", "p", "e", "n", "d", "e", "n", "c", "i",
          "e", "s" >> >>
    ELSE << >>

\* SequentialPatternExecutor._validate_sequential_dependencies
validate_sequential_dependencies(agents) ==
  LET InSeq(x, q) == \E j \in 1..Len(q) : q[j] = x
      dep_errors(k) ==
        IF k = 1
          THEN (IF agents[k].depends_on # << >>
                  THEN << << "F", "i", "r", "s", "t", " ", "a", "g", "e", "n", "t", " ",
                        "'" >> \o agents[k].type \o << "'", " ", "s", "h", "o", "u", "l", "d",
                        " ", "n", "o", "t", " ", "h", "a", "v", "e", " ", "d", "e", "p", "e",
                        "n", "d", "e", "n", "c", "i", "e", "s" >> >>
                  ELSE << >>)
          ELSE (IF agents[k].depends_on # << >> /\ ~InSeq(agents[k - 1].type, agents[k].depends_on)
                  THEN << << "A", "g", "e", "n", "t", " ", "'" >> \o agents[k].type \o << "'",
                        " ", "s", "h", "o", "u", "l", "d", " ", "d", "e", "p", "e", "n", "d",
                        " ", "o", "n", " ", "p", "r", "e", "v", "i", "o", "u", "s", " ", "a",
                        "g", "e", "n", "t", " ", "'" >>
                            \o agents[k - 1].type \o << "'", " ", "i", "n", " ", "s", "e", "q",
                                  "u", "e", "n", "t", "i", "a", "l", " ", "p", "a", "t", "t",
                                  "e", "r", "n" >> >>
                  ELSE << >>)
  IN  FlatMap(Len(agents), [k \in 1..Len(agents) |-> dep_errors(k)])

\* SequentialPatternExecutor.validate_config, when it returns
validate_config(pattern_config) ==
  validate_base_config(pattern_config)
  \o (IF pattern_config.pattern_type # TextSequential
        THEN << << "P", "a", "t", "t", "e", "r", "n", " ", "t", "y", "p", "e", " ", "m", "u",
              "s", "t", " ", "b", "e", " ", "'", "s", "e", "q", "u", "e", "n", "t", "i", "a",
              "l", "'", " ", "f", "o", "r", " ", "S", "e", "q", "u", "e", "n", "t", "i", "a",
              "l", "P", "a", "t", "t", "e", "r", "n", "E", "x", "e", "c", "u", "t", "o",
              "r" >> >> ELSE << >>)
  \o (IF "handoff_rules" \notin pattern_config.keys THEN << >>
      ELSE IF pattern_config.handoff_rules_type # "list"
        THEN << << "'", "h", "a", "n", "d", "o", "f", "f", "_", "r", "u", "l", "e", "s", "'",
              " ", "m", "u", "s", "t", " ", "b", "e", " ", "a", " ", "l", "i", "s", "t" >> >>
      ELSE validate_handoff_rules(pattern_config.handoff_rules, pattern_config))
  \o (IF Len(GetAgents(pattern_config)) < 2
        THEN << << "S", "e", "q", "u", "e", "n", "t", "i", "a", "l", " ", "p", "a", "t", "t",
              "e", "r", "n", " ", "r", "e", "q", "u", "i", "r", "e", "s", " ", "a", "t", " ",
              "l", "e", "a", "s", "t", " ", "2", " ", "a", "g", "e", "n", "t", "s" >> >> ELSE << >>)
  \o validate_sequential_dependencies(GetAgents(pattern_config))

(***************************************************************************)
(* Result maps, exceptions                                                 *)
(***************************************************************************)

EmptyMap == [k \in {} |-> NoneV]

\* d.get(key, default)
Get(d, key, default) == IF key \in DOMAIN d THEN d[key] ELSE default

\* an exception object; str(e) is e.text
Exception(type, text) == [type |-> type, text |-> text]

NoException == Exception("none", << >>)

\* the exception SequentialPatternExecutor.validate_config ends with, or
\* NoException when it returns: agent["type"] in the set comprehension of
\* _validate_handoff_rules and in _validate_sequential_dependencies, and
\* len(agents), are applied to whatever the configuration holds
validate_config_raises(pattern_config) ==
  LET agents == GetAgents(pattern_config)
      bad == {k \in 1..Len(agents) : ~agents[k].is_dict \/ "type" \notin agents[k].keys}
      first == CHOOSE k \in bad : \A j \in bad : k <= j
      rules_read == "handoff_rules" \in pattern_config.keys /\ pattern_config.handoff_rules_type = "list"
  IN  IF "agents" \in pattern_config.keys /\ pattern_config.agents_type = "NoneType"
        THEN IF rules_read THEN Exception("TypeError", << "'", "N", "o", "n", "e", "T", "y",
              "p", "e", "'", " ", "o", "b", "j", "e", "c", "t", " ", "i", "s", " ", "n", "o",
              "t", " ", "i", "t", "e", "r", "a", "b", "l", "e" >>)
             ELSE Exception("TypeError", << "o", "b", "j", "e", "c", "t", " ", "o", "f", " ",
                   "t", "y", "p", "e", " ", "'", "N", "o", "n", "e", "T", "y", "p", "e", "'",
                   " ", "h", "a", "s", " ", "n", "o", " ", "l", "e", "n", "(", ")" >>)
      ELSE IF bad = {} THEN NoException
      ELSE IF ~agents[first].is_dict
        THEN Exception("TypeError", << "s", "t", "r", "i", "n", "g", " ", "i", "n", "d", "i",
              "c", "e", "s", " ", "m", "u", "s", "t", " ", "b", "e", " ", "i", "n", "t", "e",
              "g", "e", "r", "s", ",", " ", "n", "o", "t", " ", "'", "s", "t", "r", "'" >>)
      ELSE Exception("KeyError", << "'", "t", "y", "p", "e", "'" >>)

(***************************************************************************)
(* HandoffValidationService                                                *)
(***************************************************************************)

\* the mutant of _evaluate_condition without its try/except
evaluate_condition_uncaught(condition, result) == evaluate_condition(condition, result)

\* HandoffValidationService._evaluate_condition: the evaluator's exception
\* is caught and gives False
handoff_evaluate_condition(condition, result) ==
  IF evaluate_condition(condition, result) = "T" THEN "T" ELSE "F"

\* the mutant of the dictionary that keeps the first rule of every "from"
RulesByFromFirst(handoff_rules) ==
  [f \in {handoff_rules[k].from : k \in 1..Len(handoff_rules)} |->
     handoff_rules[CHOOSE k \in 1..Len(handoff_rules) :
                     /\ handoff_rules[k].from = f
                     /\ \A j \in 1..(k - 1) : handoff_rules[j].from # f]]

\* {rule["from"]: rule for rule in handoff_rules}: a later rule replaces an
\* earlier one with the same "from"
RulesByFrom(handoff_rules) ==
  [f \in {handoff_rules[k].from : k \in 1..Len(handoff_rules)} |->
     handoff_rules[CHOOSE k \in 1..Len(handoff_rules) :
                     /\ handoff_rules[k].from = f
                     /\ \A j \in (k + 1)..Len(handoff_rules) : handoff_rules[j].from # f]]

\* the for loop over the conditions: "T", "F", or "E" when an exception leaves it
RECURSIVE CheckConditions(_, _)
CheckConditions(conditions, agent_result) ==
  IF conditions = << >> THEN "T"
  ELSE AndThen(handoff_evaluate_condition(Head(conditions), agent_result),
               CheckConditions(Tail(conditions), agent_result))

\* the mutant of the truth test of the agent result that tests for None only
ResultMissingNoneOnly(ctx_results, from_agent) == from_agent \notin DOMAIN ctx_results

\* "not agent_result" for agent_result = getattr(context, f"{from_agent}_result", None):
\* None and the empty map are both false
ResultMissing(ctx_results, from_agent) ==
  from_agent \notin DOMAIN ctx_results \/ DOMAIN ctx_results[from_agent] = {}

\* the mutant of the check that looks at the conditions of the rule as soon
\* as the context holds a result, empty or not
check_handoff_conditions_any_result(handoff_rules, from_agent, ctx_results) ==
  IF from_agent \notin DOMAIN handoff_rules THEN "T"
  ELSE IF from_agent \notin DOMAIN ctx_results THEN "F"
  ELSE CheckConditions(handoff_rules[from_agent].conditions, ctx_results[from_agent])

\* HandoffValidationService.check_handoff_conditions
check_handoff_conditions(handoff_rules, from_agent, ctx_results) ==
  IF from_agent \notin DOMAIN handoff_rules THEN "T"
  ELSE IF ResultMissing(ctx_results, from_agent) THEN "F"
  ELSE CheckConditions(handoff_rules[from_agent].conditions, ctx_results[from_agent])

(***************************************************************************)
(* ProcessingEngine: decision matrix and decisions                         *)
(***************************************************************************)

\* class LoanDecisionStatus: member name -> value
LoanDecisionStatus ==
  [m \in {"APPROVED", "DENIED", "CONDITIONAL", "MANUAL_REVIEW", "PENDING"} |->
     IF m = "APPROVED" THEN "approved"
     ELSE IF m = "DENIED" THEN "denied"
     ELSE IF m = "CONDITIONAL" THEN "conditional"
     ELSE IF m = "MANUAL_REVIEW" THEN "manual_review"
     ELSE "pending"]

AutoApprove == << "a", "u", "t", "o", "_", "a", "p", "p", "r", "o", "v", "e" >>
ConditionalApproval == << "c", "o", "n", "d", "i", "t", "i", "o", "n", "a", "l", "_", "a", "p",
      "p", "r", "o", "v", "a", "l" >>
ManualReview == << "m", "a", "n", "u", "a", "l", "_", "r", "e", "v", "i", "e", "w" >>
AutoDeny == << "a", "u", "t", "o", "_", "d", "e", "n", "y" >>

\* the dict display status_map of _apply_decision_matrix: decision type and
\* the member of LoanDecisionStatus it names, in the order they are evaluated
status_map ==
  << << AutoApprove, "APPROVED" >>,
     << ConditionalApproval, "CONDITIONAL_APPROVAL" >>,
     << ManualReview, "MANUAL_REVIEW" >>,
     << AutoDeny, "DENIED" >> >>

\* building status_map raises AttributeError for a name that is not a member
StatusMapRaises == \E k \in 1..Len(status_map) : status_map[k][2] \notin DOMAIN LoanDecisionStatus

\* str(e) of that AttributeError: the text of Enum's __getattr__ up to
\* Python 3.11, the text of type.__getattribute__ from Python 3.12 on
AttributeErrorTexts ==
  { << "C", "O", "N", "D", "I", "T", "I", "O", "N", "A", "L", "_", "A", "P", "P", "R", "O", "V",
        "A", "L" >>,
    << "t", "y", "p", "e", " ", "o", "b", "j", "e", "c", "t", " ", "'", "L", "o", "a", "n", "D",
          "e", "c", "i", "s", "i", "o", "n", "S", "t", "a", "t", "u", "s", "'", " ", "h", "a",
          "s", " ", "n", "o", " ", "a", "t", "t", "r", "i", "b", "u", "t", "e", " ", "'", "C",
          "O", "N", "D", "I", "T", "I", "O", "N", "A", "L", "_", "A", "P", "P", "R", "O", "V",
          "A", "L", "'" >> }

\* status_map.get(decision_type, LoanDecisionStatus.MANUAL_REVIEW)
StatusOf(decision_type) ==
  IF \E k \in 1..Len(status_map) : status_map[k][1] = decision_type
    THEN LoanDecisionStatus[status_map[CHOOSE k \in 1..Len(status_map) :
                                         status_map[k][1] = decision_type][2]]
    ELSE LoanDecisionStatus["MANUAL_REVIEW"]

\* the mutant of ProcessingEngine._evaluate_condition without its try/except
engine_evaluate_condition_uncaught(condition, result) == evaluate_condition(condition, result)

\* ProcessingEngine._evaluate_condition: the evaluator's exception is caught
\* and gives False
engine_evaluate_condition(condition, result) ==
  IF evaluate_condition(condition, result) = "T" THEN "T" ELSE "F"

\* the agent types whose results _apply_decision_matrix merges, in its order
MergedAgentTypes == << Intake, Credit, Income, Risk >>

\* all_results after the first n agent types: f"{agent_type}_{k}" -> v for
\* every agent type with a non-empty result
RECURSIVE MergeResults(_, _)
MergeResults(ctx_results, n) ==
  IF n = 0 THEN EmptyMap
  ELSE LET agent_type == MergedAgentTypes[n]
           before == MergeResults(ctx_results, n - 1)
       IN  IF agent_type \in DOMAIN ctx_results /\ DOMAIN ctx_results[agent_type] # {}
             THEN [key \in {agent_type \o << "_" >> \o k : k \in DOMAIN ctx_results[agent_type]} |->
                     ctx_results[agent_type][
                       CHOOSE k \in DOMAIN ctx_results[agent_type] : agent_type \o << "_" >> \o k = key]]
                  @@ before
             ELSE before

AllResults(ctx_results) == MergeResults(ctx_results, Len(MergedAgentTypes))

\* all(self._evaluate_condition(cond, all_results) for cond in conditions)
RECURSIVE AllConditions(_, _)
AllConditions(conditions, all_results) ==
  IF conditions = << >> THEN "T"
  ELSE AndThen(engine_evaluate_condition(Head(conditions), all_results),
               AllConditions(Tail(conditions), all_results))

\* the mutant of the default that gives no reason
DefaultReasoningEmpty == << >>

\* the reasoning of the default: "No decision matrix conditions matched"
DefaultReasoning == << "N", "o", " ", "d", "e", "c", "i", "s", "i", "o", "n", " ", "m", "a",
      "t", "r", "i", "x", " ", "c", "o", "n", "d", "i", "t", "i", "o", "n", "s", " ", "m", "a",
      "t", "c", "h", "e", "d" >>

\* outcome of _apply_decision_matrix: rule is the position of the entry at
\* which the loop was left, 0 when it ran to its end
MatrixReturn(rule, status, reasoning) ==
  [kind |-> "return", rule |-> rule, status |-> status, reasoning |-> reasoning,
   exception |-> NoException]

MatrixRaise(rule, exception) ==
  [kind |-> "raise", rule |-> rule, status |-> "none", reasoning |-> << >>,
   exception |-> exception]

\* the loop of _apply_decision_matrix from entry k on
RECURSIVE MatrixFrom(_, _, _, _), MatrixEntryAt(_, _, _, _, _)
MatrixFrom(decision_matrix, all_results, k, attr_text) ==
  IF k > Len(decision_matrix)
    THEN MatrixReturn(0, LoanDecisionStatus["MANUAL_REVIEW"], DefaultReasoning)
  ELSE MatrixEntryAt(decision_matrix, all_results, k, attr_text,
                     AllConditions(decision_matrix[k].conditions, all_results))

\* the body of the loop for entry k, r the value of all(...) over its conditions
MatrixEntryAt(decision_matrix, all_results, k, attr_text, r) ==
  IF r = "E"
    \* nothing in _apply_decision_matrix catches what leaves _evaluate_condition
    THEN MatrixRaise(k, Exception("ValueError", << "I", "n", "v", "a", "l", "i", "d",
          " ", "c", "o", "n", "d", "i", "t", "i", "o", "n" >>))
  ELSE IF r = "F"
    THEN MatrixFrom(decision_matrix, all_results, k + 1, attr_text)
  ELSE IF StatusMapRaises
    THEN MatrixRaise(k, Exception("AttributeError", attr_text))
  ELSE MatrixReturn(k, StatusOf(decision_matrix[k].decision_type),
                    IF decision_matrix[k].has_description THEN decision_matrix[k].description
                    ELSE << "D", "e", "c", "i", "s", "i", "o", "n", ":",
                          " " >> \o decision_matrix[k].decision_type)

\* ProcessingEngine._apply_decision_matrix
apply_decision_matrix(decision_matrix, ctx_results, attr_text) ==
  MatrixFrom(decision_matrix, AllResults(ctx_results), 1, attr_text)

FieldConfidence == << "c", "o", "n", "f", "i", "d", "e", "n", "c", "e", "_", "s", "c", "o", "r",
      "e" >>
FieldApprovedAmount == << "a", "p", "p", "r", "o", "v", "e", "d", "_", "a", "m", "o", "u", "n",
      "t" >>
FieldRecommendedRate == << "r", "e", "c", "o", "m", "m", "e", "n", "d", "e", "d", "_", "r", "a",
      "t", "e" >>
FieldRecommendedTerms == << "r", "e", "c", "o", "m", "m", "e", "n", "d", "e", "d", "_", "t",
      "e", "r", "m", "s" >>
FieldRiskCategory == << "f", "i", "n", "a", "l", "_", "r", "i", "s", "k", "_", "c", "a", "t",
      "e", "g", "o", "r", "y" >>

\* [:200] of decision_reason in _generate_error_decision
ErrorReasonLimit == 200

\* [:500] of decision_reason in _generate_loan_decision
ReasonLimit == 500

\* [-10:] of the audit trail in _build_decision_reasoning
AuditTailLimit == 10

\* the LoanDecision fields the engine sets
LoanDecision(status, reason, confidence, amount, rate, term, maker, priority, reasoning) ==
  [decision |-> status, decision_reason |-> reason, confidence_score |-> confidence,
   approved_amount |-> amount, approved_rate |-> rate, approved_term_months |-> term,
   decision_maker |-> maker, review_priority |-> priority, reasoning |-> reasoning]

Reasoning(kind, error, agents, audit, errs) ==
  [kind |-> kind, error |-> error, agents |-> agents, audit |-> audit, errors |-> errs]

NoDecision ==
  LoanDecision("none", << >>, NoneV, NoneV, NoneV, NoneV, << >>, << >>,
               Reasoning("none", << >>, << >>, << >>, << >>))

\* ProcessingEngine._build_error_reasoning
build_error_reasoning(agent_durations, audit_trail, errors, error) ==
  Reasoning("error", error.text, agent_durations, audit_trail, errors)

\* the mutant of the reason that leaves the error text out
ErrorDecisionReasonGeneric(error) == << "P", "r", "o", "c", "e", "s", "s", "i", "n", "g", " ", "e",
      "r", "r", "o", "r" >>

\* decision_reason=f"Processing error: {str(error)[:200]}"
ErrorDecisionReason(error) ==
  << "P", "r", "o", "c", "e", "s", "s", "i", "n", "g", " ", "e", "r", "r", "o", "r", ":",
     " " >> \o Slice(error.text, 0, ErrorReasonLimit)

\* ProcessingEngine._generate_error_decision
generate_error_decision(pattern_name, agent_durations, audit_trail, errors, error) ==
  LoanDecision(LoanDecisionStatus["MANUAL_REVIEW"],
               ErrorDecisionReason(error),
               FloatV(0, 1), NoneV, NoneV, NoneV,
               pattern_name \o << "_", "o", "r", "c", "h", "e", "s", "t", "r", "a", "t", "o",
                     "r", "_", "e", "r", "r", "o", "r" >>,
               << "u", "r", "g", "e", "n", "t" >>,
               build_error_reasoning(agent_durations, audit_trail, errors, error))

\* ProcessingEngine._determine_priority
determine_priority(risk_result) ==
  LET risk_category == Get(risk_result, FieldRiskCategory, StrV(<< "M", "O", "D", "E", "R", "A",
        "T", "E" >>))
  IN  IF PyEq(risk_category, StrV(<< "V", "E", "R", "Y", "_", "H", "I", "G",
        "H" >>)) THEN << "u", "r", "g", "e", "n", "t" >>
      ELSE IF PyEq(risk_category, StrV(<< "H", "I", "G", "H" >>)) THEN << "h", "i", "g", "h" >>
      ELSE IF PyEq(risk_category, StrV(<< "L", "O", "W" >>)) THEN << "l", "o", "w" >>
      ELSE << "s", "t", "a", "n", "d", "a", "r", "d" >>

\* str(e) of the exception f"{confidence:.2f}" raises for a value that is not a number
FormatErrorText(v) ==
  IF v.t = "str" THEN << "U", "n", "k", "n", "o", "w", "n", " ", "f", "o", "r", "m", "a", "t",
        " ", "c", "o", "d", "e", " ", "'", "f", "'", " ", "f", "o", "r", " ", "o", "b", "j",
        "e", "c", "t", " ", "o", "f", " ", "t", "y", "p", "e", " ", "'", "s", "t", "r", "'" >>
  ELSE IF v.t = "none" THEN << "u", "n", "s", "u", "p", "p", "o", "r", "t", "e", "d", " ", "f",
        "o", "r", "m", "a", "t", " ", "s", "t", "r", "i", "n", "g", " ", "p", "a", "s", "s",
        "e", "d", " ", "t", "o", " ", "N", "o", "n", "e", "T", "y", "p", "e", ".", "_", "_",
        "f", "o", "r", "m", "a", "t", "_", "_" >>
  ELSE << "u", "n", "s", "u", "p", "p", "o", "r", "t", "e", "d", " ", "f", "o", "r", "m", "a",
        "t", " ", "s", "t", "r", "i", "n", "g", " ", "p", "a", "s", "s", "e", "d", " ", "t",
        "o", " ", "l", "i", "s", "t", ".", "_", "_", "f", "o", "r", "m", "a", "t", "_", "_" >>

\* the agents of agent_durations, in order, whose summary line of
\* _build_decision_reasoning cannot be built
ReasoningFailures(ctx_results, agent_durations) ==
  {k \in 1..Len(agent_durations) :
     \/ agent_durations[k].agent \notin DOMAIN ctx_results
     \/ ~IsNumber(Get(ctx_results[agent_durations[k].agent], FieldConfidence, FloatV(0, 1)))}

\* the exception _build_decision_reasoning raises at the first such agent
ReasoningException(ctx_results, agent_durations) ==
  LET k == CHOOSE k \in ReasoningFailures(ctx_results, agent_durations) :
             \A j \in ReasoningFailures(ctx_results, agent_durations) : k <= j
      agent_type == agent_durations[k].agent
  IN  IF agent_type \notin DOMAIN ctx_results
        THEN Exception("AttributeError", << "'", "N", "o", "n", "e", "T", "y", "p", "e", "'",
              " ", "o", "b", "j", "e", "c", "t", " ", "h", "a", "s", " ", "n", "o", " ", "a",
              "t", "t", "r", "i", "b", "u", "t", "e", " ", "'", "g", "e", "t", "'" >>)
        ELSE Exception("TypeError",
               FormatErrorText(Get(ctx_results[agent_type], FieldConfidence, FloatV(0, 1))))

\* context.audit_trail[-10:]
AuditTail(audit_trail) ==
  IF Len(audit_trail) <= AuditTailLimit THEN audit_trail
  ELSE From(audit_trail, Len(audit_trail) - AuditTailLimit)

\* ProcessingEngine._build_decision_reasoning, when it does not raise
build_decision_reasoning(agent_durations, audit_trail) ==
  Reasoning("summary", << >>, agent_durations, AuditTail(audit_trail), << >>)

InUnitInterval(v) == IsNumber(v) /\ ~NumLess(v, IntV(0)) /\ ~NumLess(IntV(1), v)

\* the Field constraints of class LoanDecision on the fields the engine sets
ValidLoanDecision(d) ==
  /\ InUnitInterval(d.confidence_score)
  /\ d.approved_amount.t = "none"
       \/ (IsNumber(d.approved_amount) /\ ~NumLess(d.approved_amount, IntV(0)))
  /\ d.approved_rate.t = "none" \/ InUnitInterval(d.approved_rate)
  /\ d.approved_term_months.t = "none"
       \/ (d.approved_term_months.t = "int" /\ NumLess(IntV(0), d.approved_term_months)
           /\ ~NumLess(IntV(360), d.approved_term_months))

\* first line of str(e) of pydantic's ValidationError
ValidationErrorText == << "1", " ", "v", "a", "l", "i", "d", "a", "t", "i", "o", "n", " ", "e",
      "r", "r", "o", "r", " ", "f", "o", "r", " ", "L", "o", "a", "n", "D", "e", "c", "i", "s",
      "i", "o", "n" >>

GenerateReturn(decision) == [kind |-> "return", decision |-> decision, exception |-> NoException]

GenerateRaise(exception) == [kind |-> "raise", decision |-> NoDecision, exception |-> exception]

\* the mutant of the LoanDecision(...) call that takes amount, rate and term
\* from the risk result whatever the outcome
DecisionOfAnyOutcome(m, risk_result, approved, pattern_name, agent_durations, audit_trail) ==
  LoanDecision(m.status,
               Slice(m.reasoning, 0, ReasonLimit),
               Get(risk_result, FieldConfidence, FloatV(75, 2)),
               Get(risk_result, FieldApprovedAmount, NoneV),
               Get(risk_result, FieldRecommendedRate, NoneV),
               Get(risk_result, FieldRecommendedTerms, NoneV),
               pattern_name \o << "_", "o", "r", "c", "h", "e", "s", "t", "r", "a", "t", "o", "r" >>,
               determine_priority(risk_result),
               build_decision_reasoning(agent_durations, audit_trail))

\* the LoanDecision(...) call of _generate_loan_decision, m what
\* _apply_decision_matrix returned
DecisionOf(m, risk_result, approved, pattern_name, agent_durations, audit_trail) ==
  LoanDecision(m.status,
               Slice(m.reasoning, 0, ReasonLimit),
               Get(risk_result, FieldConfidence, FloatV(75, 2)),
               IF approved THEN Get(risk_result, FieldApprovedAmount, NoneV) ELSE NoneV,
               IF approved THEN Get(risk_result, FieldRecommendedRate, NoneV) ELSE NoneV,
               IF approved THEN Get(risk_result, FieldRecommendedTerms, NoneV) ELSE NoneV,
               pattern_name \o << "_", "o", "r", "c", "h", "e", "s", "t", "r", "a", "t", "o", "r" >>,
               determine_priority(risk_result),
               build_decision_reasoning(agent_durations, audit_trail))

\* _generate_loan_decision after the call of _apply_decision_matrix: the
\* exception of the matrix, of the reasoning or of the field validation, or d
GenerateFrom(m, d, ctx_results, agent_durations) ==
  IF m.kind = "raise" THEN GenerateRaise(m.exception)
  ELSE IF ReasoningFailures(ctx_results, agent_durations) # {}
    THEN GenerateRaise(ReasoningException(ctx_results, agent_durations))
  ELSE IF ~ValidLoanDecision(d)
    THEN GenerateRaise(Exception("ValidationError", ValidationErrorText))
  ELSE GenerateReturn(d)

GenerateWith(m, pattern_name, ctx_results, agent_durations, audit_trail) ==
  GenerateFrom(m,
               DecisionOf(m, IF Risk \in DOMAIN ctx_results THEN ctx_results[Risk] ELSE EmptyMap,
                          m.status = LoanDecisionStatus["APPROVED"],
                          pattern_name, agent_durations, audit_trail),
               ctx_results, agent_durations)

\* ProcessingEngine._generate_loan_decision
generate_loan_decision(pattern_config, pattern_name, ctx_results, agent_durations, audit_trail, attr_text) ==
  GenerateWith(apply_decision_matrix(GetDecisionMatrix(pattern_config), ctx_results, attr_text),
               pattern_name, ctx_results, agent_durations, audit_trail)

(***************************************************************************)
(* Inputs of the model: patterns, agent results, failures                  *)
(***************************************************************************)

\* longest agent list of a pattern
MaxStages == 3

FieldStatus == << "s", "t", "a", "t", "u", "s" >>
FieldScore == << "s", "c", "o", "r", "e" >>

CondPassed == << "s", "t", "a", "t", "u", "s", " ", "=", "=", " ", "'", "P", "A", "S", "S", "E",
      "D", "'" >>
CondScore == << "s", "c", "o", "r", "e", " ", ">", "=", " ", "6", "5", "0" >>
CondMissing == << "m", "i", "s", "s", "i", "n", "g", " ", "=", "=", " ", "1" >>
CondInvalid == << "i", "n", "v", "a", "l", "i", "d", "_", "s", "y", "n", "t", "a", "x", "+", "+" >>
CondIncomparable == << "s", "t", "a", "t", "u", "s", " ", ">", " ", "5" >>

\* what an agent can answer (the parsed JSON of its final output)
ResultEmpty == EmptyMap
ResultPassed ==
  (FieldStatus :> StrV(<< "P", "A", "S", "S", "E",
        "D" >>)) @@ (FieldScore :> IntV(720)) @@ (FieldConfidence :> FloatV(9, 1))
ResultFailed == (FieldStatus :> StrV(<< "F", "A", "I", "L", "E",
      "D" >>)) @@ (FieldScore :> IntV(600))
ResultBadConfidence == (FieldStatus :> StrV(<< "P", "A", "S", "S", "E",
      "D" >>)) @@ (FieldConfidence :> StrV(<< "h", "i", "g", "h" >>))
ResultOverConfident ==
  (FieldStatus :> StrV(<< "P", "A", "S", "S", "E",
        "D" >>)) @@ (FieldScore :> IntV(720)) @@ (FieldConfidence :> FloatV(15, 1))

\* a risk assessment that recommends an amount, a rate and a term
ResultRecommends ==
  ResultPassed @@ (FieldApprovedAmount :> IntV(250000))
    @@ (FieldRecommendedRate :> FloatV(65, 3)) @@ (FieldRecommendedTerms :> IntV(360))

ResultsFor(agent_type) ==
  IF agent_type = Intake THEN {ResultEmpty, ResultPassed, ResultFailed}
  ELSE IF agent_type = Risk
    THEN {ResultPassed, ResultFailed, ResultBadConfidence, ResultOverConfident, ResultRecommends}
  ELSE {ResultPassed, ResultBadConfidence}

\* str(e) of failures of the external collaborators: a short text, and a text
\* longer than the slice of the error decision keeps
ShortErrorText == << "C", "o", "n", "n", "e", "c", "t", "i", "o", "n", " ", "e", "r", "r", "o",
      "r", "." >>
LongErrorText == [k \in 1..(ErrorReasonLimit + 1) |-> IF k <= ErrorReasonLimit THEN "x" ELSE "y"]

RunnerErrorTexts == {ShortErrorText, LongErrorText}

StageOrder == << Intake, Risk, Credit, Income >>

AgentKeys == {"type", "name", "required", "timeout_seconds"}

AgentConfig(type, success_conditions, depends_on) ==
  [is_dict |-> TRUE, type |-> type, keys |-> AgentKeys, timeout_seconds |-> 30,
   success_conditions |-> success_conditions, depends_on |-> depends_on]

\* the first n stages of StageOrder (repeating it when n is larger), the first
\* one with the given success conditions
Chain(n, first_success_conditions) ==
  [k \in 1..n |->
     AgentConfig(StageOrder[((k - 1) % Len(StageOrder)) + 1],
                 IF k = 1 THEN first_success_conditions ELSE << >>,
                 IF k = 1 THEN << >> ELSE << StageOrder[((k - 2) % Len(StageOrder)) + 1] >>)]

HandoffRule(from, to, conditions) ==
  [keys |-> {"from", "to", "conditions"}, from |-> from, to |-> to, conditions_type |-> "list",
   conditions |-> conditions]

NoRules == << >>
RulesPassed == << HandoffRule(Intake, Risk, << CondPassed, CondScore >>) >>
RulesMissingField ==
  << HandoffRule(Risk, Credit, << >>), HandoffRule(Intake, Risk, << CondPassed, CondMissing >>) >>
RulesSameFrom ==
  << HandoffRule(Intake, Risk, << CondInvalid >>), HandoffRule(Intake, Risk, << >>) >>
RulesUnknownFrom == << HandoffRule(<< "f", "r", "a", "u", "d" >>, Risk, << CondPassed >>) >>

\* two rules for intake: the first names the stage that follows intake and
\* cannot hold, the last names a later stage and has no conditions
RulesSameFromOtherTo ==
  << HandoffRule(Intake, Risk, << CondInvalid >>), HandoffRule(Intake, Credit, << >>) >>

MatrixEntry(decision_type, has_description, description, conditions) ==
  [decision_type |-> decision_type, has_description |-> has_description,
   description |-> description, conditions |-> conditions]

EmptyMatrix == << >>
MatrixDenyApprove ==
  << MatrixEntry(AutoDeny, TRUE, << "A", "u", "t", "o", " ", "d", "e", "n", "y" >>, << << "r",
        "i", "s", "k", "_", "s", "c", "o", "r", "e", " ", "<", " ", "6", "5", "0" >> >>),
     MatrixEntry(AutoApprove, TRUE, << "A", "u", "t", "o", " ", "a", "p", "p", "r", "o", "v",
           "e" >>,
                 << << "i", "n", "t", "a", "k", "e", "_", "s", "t", "a", "t", "u", "s", " ",
                       "=", "=", " ", "'", "P", "A", "S", "S", "E", "D", "'" >>, << "r", "i",
                       "s", "k", "_", "s", "c", "o", "r", "e", " ", ">", "=", " ", "6", "5",
                       "0" >> >>) >>
MatrixWithError ==
  << MatrixEntry(ConditionalApproval, FALSE, << >>, << << "i", "n", "t", "a", "k", "e", "_",
        "m", "i", "s", "s", "i", "n", "g", " ", ">", " ", "1" >> >>),
     MatrixEntry(ManualReview, TRUE, << "N", "e", "e", "d", "s", " ", "r", "e", "v", "i", "e",
           "w" >>, << << "r", "i", "s", "k", "_", "s", "t", "a", "t", "u", "s", " ", "=", "=",
           " ", "'", "F", "A", "I", "L", "E", "D", "'" >> >>) >>

\* a matrix whose entry is met by the result of a failed intake alone
MatrixDenyFailedIntake ==
  << MatrixEntry(AutoDeny, TRUE, << "I", "n", "t", "a", "k", "e", " ", "f", "a", "i", "l", "e",
        "d" >>, << << "i", "n", "t", "a", "k", "e", "_", "s", "t", "a", "t", "u", "s", " ", "=",
        "=", " ", "'", "F", "A", "I", "L", "E", "D", "'" >> >>),
     MatrixEntry(AutoApprove, TRUE, << "A", "u", "t", "o", " ", "a", "p", "p", "r", "o", "v",
           "e" >>, << << "r", "i", "s", "k", "_", "s", "c", "o", "r", "e", " ", ">", "=", " ",
           "6", "5", "0" >> >>) >>

AllKeys == {"name", "pattern_type", "version", "agents", "handoff_rules", "decision_matrix"}

Pattern(keys, pattern_type, agents, handoff_rules, decision_matrix) ==
  [exists |-> TRUE, pattern_name |-> pattern_type, keys |-> keys, pattern_type |-> pattern_type,
   agents_type |-> "list", agents |-> agents, handoff_rules_type |-> "list",
   handoff_rules |-> handoff_rules, decision_matrix |-> decision_matrix]

RulesAndMatrix ==
  { << NoRules, EmptyMatrix >>, << NoRules, MatrixDenyApprove >>,
    << RulesPassed, MatrixDenyApprove >>, << RulesPassed, MatrixWithError >>,
    << RulesPassed, MatrixDenyFailedIntake >>,
    << RulesMissingField, EmptyMatrix >>, << RulesSameFrom, MatrixWithError >>,
    << RulesUnknownFrom, EmptyMatrix >>, << RulesSameFromOtherTo, EmptyMatrix >> }

\* the pattern files execute_pattern is called on
Patterns ==
  { Pattern(AllKeys, TextSequential, Chain(n, sc), rm[1], rm[2]) :
      n \in 1..MaxStages, sc \in {<< >>, << CondPassed >>}, rm \in RulesAndMatrix }
  \cup { Pattern(AllKeys, << "p", "a", "r", "a", "l", "l", "e", "l" >>, Chain(2, << >>), NoRules, MatrixDenyApprove),
         Pattern(AllKeys \ {"version"}, TextSequential, Chain(2, << >>), NoRules, EmptyMatrix),
         Pattern(AllKeys \ {"pattern_type"}, TextSequential, Chain(2, << >>), NoRules, EmptyMatrix),
         Pattern(AllKeys, TextSequential,
                 << AgentConfig(Intake, << >>, << Risk >>), AgentConfig(<< "f", "r", "a", "u",
                       "d" >>, << >>, << >>) >>,
                 NoRules, EmptyMatrix),
         \* an agent type that is declared twice passes validate_config
         Pattern(AllKeys, TextSequential,
                 << AgentConfig(Intake, << >>, << >>), AgentConfig(Risk, << >>, << Intake >>),
                    AgentConfig(Intake, << >>, << Risk >>) >>,
                 NoRules, MatrixDenyApprove),
         [Pattern(AllKeys, TextSequential, << >>, NoRules, EmptyMatrix) EXCEPT !.exists = FALSE] }

(***************************************************************************)
(* State                                                                   *)
(***************************************************************************)

VARIABLES
  pattern,          \* the pattern configuration execute_pattern loads
  pc,               \* where execute_pattern and the executor stand
  i,                \* 1-based position of the for loop of SequentialPatternExecutor.execute
  results,          \* context.<agent_type>_result, for the agent types that have one
  agent_durations,  \* context.agent_durations, in insertion order
  audit_trail,      \* context.audit_trail
  errors,           \* context.errors
  exc,              \* the exception on its way to the except clause of execute_pattern
  decision,         \* the LoanDecision execute_pattern returned
  escaped,          \* an exception left execute_pattern
  invocations,      \* the agent types execute_agent was called for, in order
  completions,      \* the agent types execute_agent returned for, in order
  runner_calls,     \* the agent types Runner.run was awaited for, in order
  handoff_checks,   \* the calls of check_handoff_conditions: [from, ok]
  blocked_at,       \* position of the stage a failed handoff check stopped the run at, or 0
  failed_at,        \* position of the stage whose execution raised, or 0
  probe,            \* argument of the operation applied on its own (from_agent)
  answer,           \* what that operation gave
  progress_callback, \* context.progress_callback: "none", or how the callback behaves
  delivered,        \* the events progress_callback was called with, in order
  tasks,            \* the coroutines of a parallel run, one for every call of execute_agent
  clock,            \* the time of the event loop, in ticks
  pattern_cache,    \* self._pattern_cache of the engine
  pattern_files,    \* the files <pattern_name>.yaml of self.patterns_dir
  loads             \* the calls of _load_pattern so far, in order

vars ==
  << pattern, pc, i, results, agent_durations, audit_trail, errors, exc, decision, escaped,
     invocations, completions, runner_calls, handoff_checks, blocked_at, failed_at, probe,
     answer, progress_callback, delivered, tasks, clock, pattern_cache, pattern_files, loads >>

NoResults == [a \in {} |-> EmptyMap]

\* self._pattern_cache = {} of ProcessingEngine.__init__
EmptyCache == [pattern_name \in {} |-> << >>]

\* a patterns_dir without a pattern file
NoFiles == [pattern_name \in {} |-> << >>]

NoAnswer == MatrixReturn(0, "none", << >>)

\* one entry of the audit trail or of the error list: the message kind, the
\* agent type and the text the f-string puts in (the timestamp is left out)
Entry(kind, agent_type, text) == [k |-> kind, a |-> agent_type, e |-> text]

\* the mutant that keeps the newest entry first
add_audit_entry_first(trail, entry) == << entry >> \o trail

\* OrchestrationContext.add_audit_entry
add_audit_entry(trail, entry) == Append(trail, entry)

\* the mutant of set_agent_result that records the duration alone
SetResultNowhere(ctx_results, agent_type, result) == ctx_results

\* setattr(self, f"{agent_type}_result", result)
SetResult(ctx_results, agent_type, result) ==
  [a \in DOMAIN ctx_results \cup {agent_type} |->
     IF a = agent_type THEN result ELSE ctx_results[a]]

\* self.agent_durations[agent_type] = duration (time is abstracted: every
\* duration is one unit)
SetDuration(durations, agent_type, duration) ==
  IF \E k \in 1..Len(durations) : durations[k].agent = agent_type
    THEN [k \in 1..Len(durations) |->
            IF durations[k].agent = agent_type
              THEN [agent |-> agent_type, duration |-> duration] ELSE durations[k]]
    ELSE Append(durations, [agent |-> agent_type, duration |-> duration])

\* AgentExecutionService._evaluate_condition: the evaluator's exception is
\* caught and gives False
agent_evaluate_condition(condition, result) ==
  IF evaluate_condition(condition, result) = "T" THEN "T" ELSE "F"

\* AgentExecutionService._validate_success_conditions
validate_success_conditions(conditions, result) ==
  \A k \in 1..Len(conditions) : agent_evaluate_condition(conditions[k], result) = "T"

\* the progress callbacks of the model: none attached, one that returns and
\* one that raises an Exception for every event
ProgressCallbacks == {"none", "accepts", "raises"}

\* what a raising callback raises
SinkException == Exception("Exception", << "s", "i", "n", "k", " ", "f", "a", "i", "l", "e", "d" >>)

\* the dict a notification hands to the callback
Event(type, agent_type) == [type |-> type, agent |-> agent_type]

\* the mutant of a notification without try/except around the callback
notify_unguarded(callback, log, event) ==
  [delivered |-> IF callback = "none" THEN log ELSE Append(log, event),
   raised |-> callback = "raises"]

\* "if self.progress_callback: try: self.progress_callback({...}) except
\* Exception: pass" of set_agent_result, notify_agent_start,
\* notify_agent_thinking and notify_agent_error: the events the callback has
\* been called with, and whether an exception leaves the method
notify(callback, log, event) ==
  [delivered |-> IF callback = "none" THEN log ELSE Append(log, event),
   raised |-> FALSE]

\* the mutant of the except clause that catches ValueError only
EngineCatchesValueError(exception) == exception.type = "ValueError"

\* "except Exception" of execute_pattern
EngineCatches(exception) == TRUE

\* ProcessingEngine._get_executor: the exception it raises, NoException when it
\* returns the executor
get_executor(pattern_config) ==
  IF "pattern_type" \notin pattern_config.keys
    THEN Exception("ValueError", << "P", "a", "t", "t", "e", "r", "n", " ", "c", "o", "n", "f",
          "i", "g", "u", "r", "a", "t", "i", "o", "n", " ", "m", "i", "s", "s", "i", "n", "g",
          " ", "'", "p", "a", "t", "t", "e", "r", "n", "_", "t", "y", "p", "e", "'", " ", "f",
          "i", "e", "l", "d" >>)
  ELSE IF pattern_config.pattern_type \notin pattern_executors
    THEN Exception("ValueError",
           << "N", "o", " ", "e", "x", "e", "c", "u", "t", "o", "r", " ", "r", "e", "g", "i",
                 "s", "t", "e", "r", "e", "d", " ", "f", "o", "r", " ", "p", "a", "t", "t", "e",
                 "r", "n", " ", "t", "y", "p", "e", ":", " " >> \o pattern_config.pattern_type
             \o << ".", " ", "A", "v", "a", "i", "l", "a", "b", "l", "e", ":", " ", "[", "'",
                   "s", "e", "q", "u", "e", "n", "t", "i", "a", "l", "'", "]" >>)
  ELSE NoException

\* the pattern passes _get_executor and validate_config
ValidPattern(pattern_config) ==
  /\ pattern_config.exists
  /\ get_executor(pattern_config) = NoException
  /\ validate_config_raises(pattern_config) = NoException
  /\ validate_config(pattern_config) = << >>

Agents == GetAgents(pattern)

Init ==
  /\ pattern \in Patterns
  /\ pc = "idle"
  /\ i = 0
  /\ results = NoResults
  /\ agent_durations = << >>
  /\ audit_trail = << >>
  /\ errors = << >>
  /\ exc = NoException
  /\ decision = NoDecision
  /\ escaped = FALSE
  /\ invocations = << >>
  /\ completions = << >>
  /\ runner_calls = << >>
  /\ handoff_checks = << >>
  /\ blocked_at = 0
  /\ failed_at = 0
  /\ probe = << >>
  /\ pattern_cache = EmptyCache
  /\ pattern_files = NoFiles
  /\ loads = << >>
  /\ answer = NoAnswer
  /\ progress_callback \in ProgressCallbacks
  /\ delivered = << >>
  /\ tasks = << >>
  /\ clock = 0

(***************************************************************************)
(* ProcessingEngine.execute_pattern, SequentialPatternExecutor.execute and *)
(* AgentExecutionService.execute_agent                                     *)
(***************************************************************************)

\* the mutant of the validation whose findings are not looked at
ConfigErrorsIgnored(config_errors) == FALSE

\* "if config_errors: raise ValueError(...)" of execute_pattern
ConfigAborts(config_errors) == config_errors # << >>

\* execute_pattern up to the call of executor.execute, and execute up to its loop
ExecutePattern ==
  /\ pc = "idle"
  /\ UNCHANGED << pattern, progress_callback, tasks, clock, delivered, results, agent_durations, errors, decision, invocations,
                  completions, runner_calls, handoff_checks, blocked_at, failed_at, probe, answer,
                  pattern_cache, pattern_files, loads >>
  /\ IF ~pattern.exists
       THEN \* _load_pattern raises FileNotFoundError before the try statement
            /\ pc' = "escaped"
            /\ escaped' = TRUE
            /\ exc' = Exception("FileNotFoundError", << "P", "a", "t", "t", "e", "r", "n", " ",
                  "f", "i", "l", "e", " ", "n", "o", "t", " ", "f", "o", "u", "n", "d" >>)
            /\ UNCHANGED << i, audit_trail >>
       ELSE LET started == add_audit_entry(audit_trail, Entry("started", pattern.pattern_name, << >>))
                config_errors == validate_config(pattern)
            IN  /\ escaped' = FALSE
                /\ IF get_executor(pattern) # NoException
                     THEN /\ pc' = "failed"
                          /\ exc' = get_executor(pattern)
                          /\ audit_trail' = started
                          /\ i' = i
                   ELSE IF validate_config_raises(pattern) # NoException
                     THEN /\ pc' = "failed"
                          /\ exc' = validate_config_raises(pattern)
                          /\ audit_trail' = started
                          /\ i' = i
                   ELSE IF ConfigAborts(config_errors)
                     THEN /\ pc' = "failed"
                          /\ exc' = Exception("ValueError",
                                      << "C", "o", "n", "f", "i", "g", "u", "r", "a", "t", "i",
                                            "o", "n", " ", "e", "r", "r", "o", "r", "s", ":",
                                            " " >> \o Join(config_errors, << ";", " " >>))
                          /\ audit_trail' = started
                          /\ i' = i
                   ELSE /\ pc' = "executing"
                        /\ exc' = exc
                        /\ audit_trail' =
                             add_audit_entry(started, Entry("sequential_start", NatToText(Len(Agents)), << >>))
                        /\ i' = 1

\* the mutant of the except clause of execute_agent that leaves context.errors alone
AgentFailsUnrecorded(trail, agent_type, exception) ==
  /\ audit_trail' = add_audit_entry(trail, Entry("agent_failed", agent_type, exception.text))
  /\ errors' = errors
  /\ exc' = IF notify(progress_callback, << >>, Event("agent_error", agent_type)).raised
              THEN SinkException ELSE exception
  /\ failed_at' = i
  /\ pc' = "failed"

\* the except clause of execute_agent: the failure is recorded and raised again;
\* nothing in execute catches it
AgentFails(trail, agent_type, exception) ==
  /\ audit_trail' = add_audit_entry(trail, Entry("agent_failed", agent_type, exception.text))
  /\ errors' = Append(errors, Entry("agent_failed", agent_type, exception.text))
  /\ exc' = IF notify(progress_callback, << >>, Event("agent_error", agent_type)).raised
              THEN SinkException ELSE exception
  /\ failed_at' = i
  /\ pc' = "failed"

\* the mutant of the handoff branch that goes on to the next agent
BlockedHandoffContinues(ok) == FALSE

\* "if not self.handoff_service.check_handoff_conditions(...)": the loop is left
HandoffBlocks(ok) == ok # "T"

\* the events delivered once notify_agent_start has been called
Started(log, agent_type) == notify(progress_callback, log, Event("agent_started", agent_type)).delivered

\* the events delivered once notify_agent_error has been called
NotifiedError(log, agent_type) == notify(progress_callback, log, Event("agent_error", agent_type)).delivered

\* one pass of the loop of execute for agent i: the handoff check against the
\* previous agent, then execute_agent up to its await of Runner.run
SequentialStep ==
  /\ pc = "executing"
  /\ i <= Len(Agents)
  /\ UNCHANGED << pattern, progress_callback, tasks, clock, decision, escaped, probe, answer, i, completions,
                  pattern_cache, pattern_files, loads >>
  /\ \E ok \in {IF i > 1
                   THEN check_handoff_conditions(RulesByFrom(GetHandoffRules(pattern)),
                                                 Agents[i - 1].type, results)
                   ELSE "T"} :
     LET agent_type == Agents[i].type
         executing == add_audit_entry(
                        add_audit_entry(audit_trail, Entry("executing_agent", agent_type, << >>)),
                        Entry("agent_starting", agent_type, << >>))
     IN  /\ handoff_checks' =
              IF i > 1 THEN Append(handoff_checks, [from |-> Agents[i - 1].type, ok |-> ok])
              ELSE handoff_checks
         /\ IF i > 1 /\ HandoffBlocks(ok)
              THEN /\ audit_trail' =
                        add_audit_entry(
                          add_audit_entry(audit_trail, Entry("handoff_not_met", agent_type, << >>)),
                          Entry("sequential_completed", << >>, << >>))
                   /\ blocked_at' = i
                   /\ pc' = "executor_done"
                   /\ UNCHANGED << results, agent_durations, errors, exc, invocations,
                                   runner_calls, failed_at, delivered >>
              ELSE IF notify(progress_callback, delivered, Event("agent_started", agent_type)).raised
                \* the callback's exception leaves notify_agent_start, before the try
                \* statement of execute_agent: nothing is recorded
                THEN /\ invocations' = Append(invocations, agent_type)
                     /\ audit_trail' = executing
                     /\ delivered' = Started(delivered, agent_type)
                     /\ exc' = SinkException
                     /\ failed_at' = i
                     /\ pc' = "failed"
                     /\ UNCHANGED << results, agent_durations, blocked_at, errors, runner_calls >>
              ELSE /\ invocations' = Append(invocations, agent_type)
                   /\ UNCHANGED << results, agent_durations, blocked_at >>
                   /\ \/ \* create_configured_agent raises
                         /\ AgentFails(executing, agent_type, Exception("ValueError", ShortErrorText))
                         /\ delivered' = NotifiedError(Started(delivered, agent_type), agent_type)
                         /\ UNCHANGED runner_calls
                      \/ \* connecting an MCP server of the agent fails
                         /\ AgentFails(
                              add_audit_entry(
                                add_audit_entry(executing, Entry("mcp_connecting", agent_type, << >>)),
                                Entry("mcp_failed", agent_type, ShortErrorText)),
                              agent_type,
                              Exception("RuntimeError",
                                << "C", "a", "n", "n", "o", "t", " ", "e", "x", "e", "c", "u",
                                      "t", "e", " " >> \o agent_type
                                  \o << " ", "a", "g", "e", "n", "t", ":", " ", "M", "C", "P",
                                        " ", "s", "e", "r", "v", "e", "r", " ", "1", " ", "c",
                                        "o", "n", "n", "e", "c", "t", "i", "o", "n", " ", "f",
                                        "a", "i", "l", "e", "d", ":", " " >> \o ShortErrorText))
                         /\ delivered' = NotifiedError(Started(delivered, agent_type), agent_type)
                         /\ UNCHANGED runner_calls
                      \/ \* notify_agent_thinking, inside the try statement, then the
                         \* request is sent: Runner.run is awaited
                         IF notify(progress_callback, delivered, Event("agent_thinking", agent_type)).raised
                           THEN /\ AgentFails(add_audit_entry(executing, Entry("sending_request", agent_type, << >>)),
                                              agent_type, SinkException)
                                /\ delivered' = NotifiedError(
                                                  notify(progress_callback, Started(delivered, agent_type),
                                                         Event("agent_thinking", agent_type)).delivered,
                                                  agent_type)
                                /\ UNCHANGED runner_calls
                           ELSE /\ audit_trail' = add_audit_entry(executing, Entry("sending_request", agent_type, << >>))
                                /\ delivered' = notify(progress_callback, Started(delivered, agent_type),
                                                       Event("agent_thinking", agent_type)).delivered
                                /\ runner_calls' = Append(runner_calls, agent_type)
                                /\ pc' = "awaiting"
                                /\ UNCHANGED << errors, exc, failed_at >>

\* Runner.run exceeds timeout_seconds: asyncio.wait_for raises TimeoutError
AgentTimeout ==
  /\ pc = "awaiting"
  /\ UNCHANGED << pattern, progress_callback, tasks, clock, decision, escaped, probe, answer, i, results, agent_durations,
                  invocations, completions, runner_calls, handoff_checks, blocked_at,
                  pattern_cache, pattern_files, loads >>
  /\ delivered' = NotifiedError(delivered, Agents[i].type)
  /\ AgentFails(audit_trail, Agents[i].type,
                Exception("RuntimeError",
                  Agents[i].type \o << " ", "a", "g", "e", "n", "t", " ", "t", "i", "m", "e",
                        "d", " ", "o", "u", "t", " ", "a", "f", "t", "e", "r", " " >>
                    \o NatToText(Agents[i].timeout_seconds) \o << " ", "s", "e", "c", "o", "n",
                          "d", "s" >>))

\* Runner.run raises
AgentRunnerError ==
  /\ pc = "awaiting"
  /\ UNCHANGED << pattern, progress_callback, tasks, clock, decision, escaped, probe, answer, i, results, agent_durations,
                  invocations, completions, runner_calls, handoff_checks, blocked_at,
                  pattern_cache, pattern_files, loads >>
  /\ delivered' = NotifiedError(delivered, Agents[i].type)
  /\ \E text \in RunnerErrorTexts :
       AgentFails(audit_trail, Agents[i].type, Exception("Exception", text))

\* the mutant of the loop that passes over every other agent
NextAgentSkipping(k) == k + 2

\* "for i, agent_config in enumerate(agents)": the position after k
NextAgent(k) == k + 1

\* Runner.run returns: the result is parsed and stored, then the success
\* conditions are checked; execute goes on to the next agent
AgentReturns ==
  /\ pc = "awaiting"
  /\ UNCHANGED << pattern, progress_callback, tasks, clock, decision, escaped, probe, answer, invocations, runner_calls,
                  handoff_checks, blocked_at, pattern_cache, pattern_files, loads >>
  /\ \E parsed_result \in ResultsFor(Agents[i].type) :
       LET agent_type == Agents[i].type
           stored == add_audit_entry(
                       add_audit_entry(
                         add_audit_entry(audit_trail, Entry("received_response", agent_type, << >>)),
                         Entry("debug_returned", agent_type, << >>)),
                       Entry("agent_completed", agent_type, << >>))
           completed == notify(progress_callback, delivered, Event("agent_completed", agent_type))
       IN  /\ results' = SetResult(results, agent_type, parsed_result)
           /\ agent_durations' = SetDuration(agent_durations, agent_type, 1)
           /\ IF completed.raised
                \* the callback's exception leaves set_agent_result inside the try statement
                THEN /\ AgentFails(stored, agent_type, SinkException)
                     /\ i' = i
                     /\ completions' = completions
              ELSE IF validate_success_conditions(Agents[i].success_conditions, parsed_result)
                THEN /\ audit_trail' = add_audit_entry(stored, Entry("completed_agent", agent_type, << >>))
                     /\ completions' = Append(completions, agent_type)
                     /\ i' = NextAgent(i)
                     /\ pc' = "executing"
                     /\ UNCHANGED << errors, exc, failed_at >>
                ELSE /\ AgentFails(stored, agent_type,
                          Exception("ValueError",
                            agent_type \o << " ", "a", "g", "e", "n", "t", " ", "d", "i", "d",
                                  " ", "n", "o", "t", " ", "m", "e", "e", "t", " ", "s", "u",
                                  "c", "c", "e", "s", "s", " ", "c", "o", "n", "d", "i", "t",
                                  "i", "o", "n", "s" >>))
                     /\ i' = i
                     /\ completions' = completions
           /\ delivered' = IF pc' = "failed" THEN NotifiedError(completed.delivered, agent_type)
                             ELSE completed.delivered

\* the loop of execute has run through all agents
SequentialEnd ==
  /\ pc = "executing"
  /\ i > Len(Agents)
  /\ audit_trail' = add_audit_entry(audit_trail, Entry("sequential_completed", << >>, << >>))
  /\ pc' = "executor_done"
  /\ UNCHANGED << pattern, progress_callback, tasks, clock, delivered, i, results, agent_durations, errors, exc, decision, escaped,
                  invocations, completions, runner_calls, handoff_checks, blocked_at, failed_at, probe, answer,
                  pattern_cache, pattern_files, loads >>

\* execute returned: _generate_loan_decision
GenerateDecision ==
  /\ pc = "executor_done"
  /\ UNCHANGED << pattern, progress_callback, tasks, clock, delivered, i, results, agent_durations, errors, escaped, invocations,
                  completions, runner_calls, handoff_checks, blocked_at, failed_at, probe, answer,
                  pattern_cache, pattern_files, loads >>
  /\ \E attr_text \in AttributeErrorTexts :
       \E g \in {generate_loan_decision(pattern, pattern.pattern_name, results,
                                        agent_durations, audit_trail, attr_text)} :
           IF g.kind = "raise"
             THEN /\ exc' = g.exception
                  /\ pc' = "failed"
                  /\ UNCHANGED << decision, audit_trail >>
             ELSE /\ decision' = g.decision
                  /\ audit_trail' = add_audit_entry(audit_trail, Entry("orchestration_completed", << >>, << >>))
                  /\ pc' = "returned"
                  /\ exc' = exc

\* the except clause of execute_pattern
HandleError ==
  /\ pc = "failed"
  /\ UNCHANGED << pattern, progress_callback, tasks, clock, delivered, i, results, agent_durations, exc, invocations, completions, runner_calls,
                  handoff_checks, blocked_at, failed_at, probe, answer,
                  pattern_cache, pattern_files, loads >>
  /\ IF EngineCatches(exc)
       THEN LET failed == add_audit_entry(audit_trail, Entry("orchestration_failed", << >>, exc.text))
                recorded == Append(errors, Entry("orchestration_failed", << >>, exc.text))
            IN  /\ audit_trail' = failed
                /\ errors' = recorded
                /\ decision' = generate_error_decision(pattern.pattern_name, agent_durations,
                                                       failed, recorded, exc)
                /\ pc' = "returned"
                /\ escaped' = escaped
       ELSE /\ pc' = "escaped"
            /\ escaped' = TRUE
            /\ UNCHANGED << audit_trail, errors, decision >>

Next ==
  \/ ExecutePattern
  \/ SequentialStep
  \/ AgentTimeout
  \/ AgentRunnerError
  \/ AgentReturns
  \/ SequentialEnd
  \/ GenerateDecision
  \/ HandleError

Spec == Init /\ [][Next]_vars

(***************************************************************************)
(* HandoffValidationService.check_handoff_conditions applied on its own    *)
(***************************************************************************)

RulesIncomparable == << HandoffRule(Intake, Risk, << CondPassed, CondIncomparable >>) >>
RulesFailClosed == << HandoffRule(Risk, Credit, << CondScore, CondInvalid >>) >>

HandoffRuleSets ==
  {NoRules, RulesPassed, RulesMissingField, RulesSameFrom, RulesUnknownFrom, RulesIncomparable,
   RulesFailClosed}

\* the contexts a call can find: the agent types that have a result, and the results
Contexts ==
  UNION {[types -> {ResultEmpty, ResultPassed, ResultFailed, ResultBadConfidence}] :
           types \in SUBSET {Intake, Risk}}

InitHandoff ==
  /\ \E rules \in HandoffRuleSets :
       pattern = Pattern(AllKeys, TextSequential, Chain(2, << >>), rules, EmptyMatrix)
  /\ probe \in {Intake, Risk, Credit}
  /\ pattern_cache = EmptyCache
  /\ pattern_files = NoFiles
  /\ loads = << >>
  /\ results \in Contexts
  /\ pc = "handoff_call"
  /\ i = 0
  /\ agent_durations = << >>
  /\ audit_trail = << >>
  /\ errors = << >>
  /\ exc = NoException
  /\ decision = NoDecision
  /\ escaped = FALSE
  /\ invocations = << >>
  /\ completions = << >>
  /\ runner_calls = << >>
  /\ handoff_checks = << >>
  /\ blocked_at = 0
  /\ failed_at = 0
  /\ answer = NoAnswer
  /\ progress_callback = "none"
  /\ delivered = << >>
  /\ tasks = << >>
  /\ clock = 0

\* check_handoff_conditions(context, from_agent, to_agent, handoff_rules):
\* answer.status is "T" or "F" for the truth value returned, "E" when an
\* exception leaves the call
CheckHandoff ==
  /\ pc = "handoff_call"
  /\ answer' = MatrixReturn(0, check_handoff_conditions(RulesByFrom(GetHandoffRules(pattern)),
                                                        probe, results), << >>)
  /\ pc' = "handoff_done"
  /\ UNCHANGED << pattern, progress_callback, tasks, clock, delivered, i, results, agent_durations, audit_trail, errors, exc, decision,
                  escaped, invocations, completions, runner_calls, handoff_checks, blocked_at,
                  failed_at, probe, pattern_cache, pattern_files, loads >>

NextHandoff == CheckHandoff

SpecHandoff == InitHandoff /\ [][NextHandoff]_vars

(***************************************************************************)
(* ProcessingEngine._apply_decision_matrix applied on its own              *)
(***************************************************************************)

MatrixBothSatisfied ==
  << MatrixEntry(AutoDeny, TRUE, << "A", "u", "t", "o", " ", "d", "e", "n", "y" >>, << << "r",
        "i", "s", "k", "_", "s", "c", "o", "r", "e", " ", "<", " ", "6", "5", "0" >> >>),
     MatrixEntry(AutoApprove, TRUE, << "A", "u", "t", "o", " ", "a", "p", "p", "r", "o", "v",
           "e" >>, << << "i", "n", "t", "a", "k", "e", "_", "s", "t", "a", "t", "u", "s", " ",
           "=", "=", " ", "'", "P", "A", "S", "S", "E", "D", "'" >> >>) >>
MatrixApproveFirst ==
  << MatrixEntry(AutoApprove, TRUE, << "A", "u", "t", "o", " ", "a", "p", "p", "r", "o", "v",
        "e" >>, << << "i", "n", "t", "a", "k", "e", "_", "s", "t", "a", "t", "u", "s", " ", "=",
        "=", " ", "'", "P", "A", "S", "S", "E", "D", "'" >> >>),
     MatrixEntry(AutoDeny, TRUE, << "A", "u", "t", "o", " ", "d", "e", "n", "y" >>, << << "r",
           "i", "s", "k", "_", "s", "c", "o", "r", "e", " ", "<", " ", "6", "5", "0" >> >>) >>
MatrixErrorAfterFalse ==
  << MatrixEntry(AutoDeny, TRUE, << "A", "u", "t", "o", " ", "d", "e", "n", "y" >>, << << "r",
        "i", "s", "k", "_", "s", "c", "o", "r", "e", " ", "<", " ", "6", "5", "0" >>, << "r",
        "i", "s", "k", "_", "s", "c", "o", "r", "e", " ", ">", "<", " ", "1" >> >>),
     MatrixEntry(ManualReview, FALSE, << >>, << << "i", "n", "t", "a", "k", "e", "_", "s", "t",
           "a", "t", "u", "s", " ", ">", " ", "5" >> >>),
     MatrixEntry(AutoApprove, TRUE, << "A", "u", "t", "o", " ", "a", "p", "p", "r", "o", "v",
           "e" >>, << >>) >>

DecisionMatrices ==
  {EmptyMatrix, MatrixDenyApprove, MatrixWithError, MatrixBothSatisfied, MatrixApproveFirst,
   MatrixErrorAfterFalse}

\* the contexts _apply_decision_matrix can find: those above, and contexts
\* where set_agent_result was called for an agent of another type
DecisionContexts ==
  Contexts \cup {(Fraud :> fraud) @@ ctx_results :
                   fraud \in {ResultPassed, ResultFailed},
                   ctx_results \in [{Intake} -> {ResultPassed}] \cup {NoResults}}

InitDecision ==
  /\ \E decision_matrix \in DecisionMatrices :
       pattern = Pattern(AllKeys, TextSequential, Chain(2, << >>), NoRules, decision_matrix)
  /\ probe = << >>
  /\ pattern_cache = EmptyCache
  /\ pattern_files = NoFiles
  /\ loads = << >>
  /\ results \in DecisionContexts
  /\ pc = "matrix_call"
  /\ i = 0
  /\ agent_durations = << >>
  /\ audit_trail = << >>
  /\ errors = << >>
  /\ exc = NoException
  /\ decision = NoDecision
  /\ escaped = FALSE
  /\ invocations = << >>
  /\ completions = << >>
  /\ runner_calls = << >>
  /\ handoff_checks = << >>
  /\ blocked_at = 0
  /\ failed_at = 0
  /\ answer = NoAnswer
  /\ progress_callback = "none"
  /\ delivered = << >>
  /\ tasks = << >>
  /\ clock = 0

\* _apply_decision_matrix(pattern_config, context)
ApplyDecisionMatrix ==
  /\ pc = "matrix_call"
  /\ \E attr_text \in AttributeErrorTexts :
       answer' = apply_decision_matrix(GetDecisionMatrix(pattern), results, attr_text)
  /\ pc' = "matrix_done"
  /\ UNCHANGED << pattern, progress_callback, tasks, clock, delivered, i, results, agent_durations, audit_trail, errors, exc, decision,
                  escaped, invocations, completions, runner_calls, handoff_checks, blocked_at,
                  failed_at, probe, pattern_cache, pattern_files, loads >>

NextDecision == ApplyDecisionMatrix

SpecDecision == InitDecision /\ [][NextDecision]_vars

(***************************************************************************)
(* SafeConditionEvaluator.evaluate_condition applied on its own            *)
(***************************************************************************)

\* a simple condition: identifier, operator and value literal
Term(field, op, literal) == [field |-> field, op |-> op, literal |-> literal]

TermText(t) == t.field \o << " " >> \o t.op \o << " " >> \o t.literal

\* one call: the condition text, the terms it was written from (none for a
\* text that is not of the form of a condition) and the values
Probe(terms, connective, context) ==
  [condition |-> Join([k \in 1..Len(terms) |-> TermText(terms[k])],
                      IF connective = "and" THEN << " ", "a", "n", "d", " " >> ELSE << " ", "o",
                            "r", " " >>),
   terms |-> terms, connective |-> connective, context |-> context]

RawProbe(condition, context) ==
  [condition |-> condition, terms |-> << >>, connective |-> "none", context |-> context]

FieldTier == << "t", "i", "e", "r" >>

EvalContexts ==
  {(FieldScore :> IntV(720)) @@ (FieldTier :> StrV(<< "b" >>)),
   (FieldScore :> IntV(600)) @@ (FieldTier :> StrV(<< "a", " ", "o", "r", " ", "b" >>))}

EvalFields == {FieldScore, FieldTier, << "m", "i", "s", "s", "i", "n", "g" >>}

\* the operators of OPERATORS, and "not  in", which the pattern of
\* _evaluate_simple_condition matches and OPERATORS does not hold
EvalOperators == OPERATORS \cup {<< "n", "o", "t", " ", " ", "i", "n" >>}

EvalLiterals == {<< "6", "5", "0" >>, << "'", "b", "'" >>, << "[", "'", "a", "'", ",", " ", "'",
      "b", "'", "]" >>, << "'", "a", " ", "o", "r", " ", "b", "'" >>, << "'", "a", " ", "a",
      "n", "d", " ", "b", "'" >>}

CompoundTerms ==
  {Term(FieldScore, OpGt, << "6", "5", "0" >>), Term(FieldTier, OpEq, << "'", "b", "'" >>),
   Term(<< "m", "i", "s", "s", "i", "n", "g" >>, OpEq, << "1" >>), Term(FieldTier, OpGt, << "5" >>)}

\* texts that are not of the form identifier operator value
RawConditions ==
  {<< >>, << " ", " ", " " >>, << "i", "n", "v", "a", "l", "i", "d", " ", "c", "o", "n", "d",
        "i", "t", "i", "o", "n" >>, << "c", "r", "e", "d", "i", "t", "_", "s", "c", "o", "r",
        "e", " ", "*", "*", " ", "2" >>, << "s", "c", "o", "r", "e", ".", "x", " ", ">", " ",
        "1" >>,
   << "s", "c", "o", "r", "e", " ", "+", " ", "t", "i", "e", "r", " ", "*", " ", "2" >>, << "s",
         "c", "o", "r", "e", " ", "=", " ", "6", "5", "0" >>, << ">", " ", "6", "5", "0" >>}

\* the conditions of test_edge_cases that are no condition at all, and
\* blanks of other kinds
BlankConditions ==
  {<< >>, << " " >>, << " ", " ", " " >>, << "\t" >>, << " ", "\n", " " >>, NoneCondition}

\* the empty values map
NoValues == [f \in {} |-> NoneV]

\* a condition of three terms joined by two different connectives
MixedProbe(terms, connectives, context) ==
  [condition |-> TermText(terms[1]) \o << " " >> \o connectives[1] \o << " " >> \o TermText(terms[2])
                   \o << " " >> \o connectives[2] \o << " " >> \o TermText(terms[3]),
   terms |-> terms, connective |-> "mixed", context |-> context]

MixedTerms ==
  {Term(FieldScore, OpGt, << "6", "5", "0" >>), Term(FieldScore, OpLt, << "6", "5",
        "0" >>), Term(FieldTier, OpEq, << "'", "b", "'" >>),
   Term(FieldTier, OpNe, << "'", "a", "'" >>)}

MixedProbes ==
  {MixedProbe(<< t1, t2, t3 >>, connectives, c) :
     t1 \in MixedTerms, t2 \in MixedTerms, t3 \in MixedTerms,
     connectives \in {<< << "a", "n", "d" >>, << "o", "r" >> >>, << << "o", "r" >>, << "a", "n",
           "d" >> >>}, c \in EvalContexts}

EvalProbes ==
  {Probe(<< Term(f, op, l) >>, "none", c) :
     f \in EvalFields, op \in EvalOperators, l \in EvalLiterals, c \in EvalContexts}
  \cup {Probe(<< t1, t2 >>, connective, c) :
          t1 \in CompoundTerms, t2 \in CompoundTerms, connective \in {"and", "or"},
          c \in EvalContexts}
  \cup {Probe(<< Term(FieldScore, OpGe, << "6", "0", "0" >>), Term(FieldScore, OpLt, << "7",
        "0", "0" >>),
                 Term(FieldTier, OpNe, << "'", "c", "'" >>) >>, connective, c) :
          connective \in {"and", "or"}, c \in EvalContexts}
  \cup {RawProbe(condition, c) : condition \in RawConditions, c \in EvalContexts}
  \cup {RawProbe(condition, c) : condition \in BlankConditions, c \in EvalContexts \cup {NoValues}}
  \cup MixedProbes

InitEvaluate ==
  /\ pattern = Pattern(AllKeys, TextSequential, Chain(2, << >>), NoRules, EmptyMatrix)
  /\ probe \in EvalProbes
  /\ pattern_cache = EmptyCache
  /\ pattern_files = NoFiles
  /\ loads = << >>
  /\ results = NoResults
  /\ pc = "evaluate_call"
  /\ i = 0
  /\ agent_durations = << >>
  /\ audit_trail = << >>
  /\ errors = << >>
  /\ exc = NoException
  /\ decision = NoDecision
  /\ escaped = FALSE
  /\ invocations = << >>
  /\ completions = << >>
  /\ runner_calls = << >>
  /\ handoff_checks = << >>
  /\ blocked_at = 0
  /\ failed_at = 0
  /\ answer = NoAnswer
  /\ progress_callback = "none"
  /\ delivered = << >>
  /\ tasks = << >>
  /\ clock = 0

\* evaluate_condition(condition, context): answer.status is "T" or "F" for
\* the truth value returned, "E" when ValueError is raised
Evaluate ==
  /\ pc = "evaluate_call"
  /\ answer' = MatrixReturn(0, evaluate_condition(probe.condition, probe.context), << >>)
  /\ pc' = "evaluate_done"
  /\ UNCHANGED << pattern, progress_callback, tasks, clock, delivered, i, results,
                  agent_durations, audit_trail, errors, exc, decision, escaped, invocations,
                  completions, runner_calls, handoff_checks, blocked_at, failed_at, probe,
                  pattern_cache, pattern_files, loads >>

NextEvaluate == Evaluate

SpecEvaluate == InitEvaluate /\ [][NextEvaluate]_vars

(***************************************************************************)
(* ParallelPatternExecutor.execute, called on a new context (the engine    *)
(* registers the sequential executor only)                                 *)
(***************************************************************************)

\* the longest time, in ticks of the clock, Runner.run takes to answer
MaxLatency == 3

TextParallel == << "p", "a", "r", "a", "l", "l", "e", "l" >>

\* an agent entry of a parallel pattern
StageConfig(type, execution_stage, timeout_seconds, success_conditions, depends_on) ==
  [is_dict |-> TRUE, type |-> type, keys |-> AgentKeys \cup {"depends_on"},
   execution_stage |-> execution_stage, timeout_seconds |-> timeout_seconds,
   success_conditions |-> success_conditions, depends_on_type |-> "list",
   depends_on |-> depends_on]

Branch(branch_name, agents) ==
  [is_dict |-> TRUE, keys |-> {"branch_name", "agents"}, branch_name |-> branch_name,
   agents_type |-> "list", agents |-> agents]

ParallelKeys == {"name", "pattern_type", "version", "agents", "parallel_branches",
      "synthesis_agents"}

\* a synchronization section: whether it is a dictionary, its keys and
\* their values
Synchronization(is_dict, keys, wait_for_all, branch_timeout, threshold) ==
  [is_dict |-> is_dict, keys |-> keys, wait_for_all_branches |-> wait_for_all,
   branch_timeout_seconds |-> branch_timeout,
   partial_completion_threshold |-> threshold]

ParallelPattern(keys, agents, parallel_branches, synthesis_agents) ==
  [exists |-> TRUE, pattern_name |-> TextParallel, keys |-> keys, pattern_type |-> TextParallel,
   agents_type |-> "list", agents |-> agents, parallel_branches_type |-> "list",
   parallel_branches |-> parallel_branches, synthesis_agents_type |-> "list",
   synthesis_agents |-> synthesis_agents,
   synchronization |-> Synchronization(TRUE, {}, NoneV, NoneV, NoneV)]

InitialIntake == StageConfig(Intake, "initial", 2, << >>, << >>)
SynthesisRisk == StageConfig(Risk, "synthesis", 2, << >>, << Credit, Income >>)
BranchCredit == Branch(<< "c", "r", "e", "d", "i", "t", "_", "b", "r", "a", "n", "c",
      "h" >>, << StageConfig(Credit, "parallel", 2, << CondPassed >>, << Intake >>) >>)
BranchIncome == Branch(<< "i", "n", "c", "o", "m", "e", "_", "b", "r", "a", "n", "c",
      "h" >>, << StageConfig(Income, "parallel", 1, << >>, << Intake >>) >>)

\* a branch of two stages, both depending on the initial stage
BranchCreditIncome ==
  Branch(<< "c", "r", "e", "d", "i", "t", "_", "b", "r", "a", "n", "c", "h" >>,
         << StageConfig(Credit, "parallel", 2, << >>, << Intake >>),
            StageConfig(Income, "parallel", 2, << >>, << Intake >>) >>)

\* a branch whose stage depends on a stage that never runs
BranchFraud == Branch(<< "f", "r", "a", "u", "d", "_", "b", "r", "a", "n", "c",
      "h" >>, << StageConfig(Risk, "parallel", 2, << >>, << << "f", "r", "a", "u", "d" >> >>) >>)

\* a branch whose stage depends on the stage of the branch before it
BranchIncomeAfterCredit ==
  Branch(<< "i", "n", "c", "o", "m", "e", "_", "b", "r", "a", "n", "c", "h" >>,
         << StageConfig(Income, "parallel", 1, << >>, << Intake, Credit >>) >>)

\* the pattern configurations execute is called with
ParallelPatterns ==
  { ParallelPattern(ParallelKeys, << InitialIntake >>, << BranchCredit, BranchIncome >>, << SynthesisRisk >>),
    ParallelPattern(ParallelKeys, << InitialIntake >>, << BranchCredit, BranchIncomeAfterCredit >>, << >>),
    ParallelPattern(ParallelKeys, << InitialIntake >>, << BranchCreditIncome, BranchFraud >>, << >>),
    ParallelPattern(ParallelKeys \ {"parallel_branches"}, << InitialIntake >>, << >>, << SynthesisRisk >>) }

\* what Runner.run gives for a request: the agent's final output, an
\* exception, or no answer before the timeout
RunnerOutcomes(latency, timeout_seconds) ==
  IF latency < timeout_seconds THEN {"returns", "raises"}
  ELSE IF latency = timeout_seconds THEN {"returns", "raises", "timeout"}
  ELSE {"timeout"}

ParallelResults == {ResultPassed, ResultFailed}

\* str(branch.get("branch_name"))
BranchNameText(branch) ==
  IF "branch_name" \in branch.keys THEN branch.branch_name ELSE << "N", "o", "n", "e" >>

\* branch.get("branch_name") is a name: the key is there and its text is not empty
HasBranchName(branch) == "branch_name" \in branch.keys /\ branch.branch_name # << >>

\* ParallelPatternExecutor._validate_parallel_branches, for a list
validate_parallel_branches(branches) ==
  (IF Len(branches) < 2
     THEN << << "P", "a", "r", "a", "l", "l", "e", "l", " ", "p", "a", "t", "t", "e", "r", "n",
           " ", "r", "e", "q", "u", "i", "r", "e", "s", " ", "a", "t", " ", "l", "e", "a", "s",
           "t", " ", "2", " ", "b", "r", "a", "n", "c", "h", "e", "s" >> >> ELSE << >>)
  \o FlatMap(Len(branches),
       [b \in 1..Len(branches) |->
          IF ~branches[b].is_dict
            THEN << << "B", "r", "a", "n", "c", "h", " " >> \o NatToText(b - 1) \o << " ", "m",
                  "u", "s", "t", " ", "b", "e", " ", "a", " ", "d", "i", "c", "t", "i", "o",
                  "n", "a", "r", "y" >> >>
          ELSE
            (IF ~HasBranchName(branches[b])
               THEN << << "B", "r", "a", "n", "c", "h", " " >> \o NatToText(b - 1) \o << " ",
                     "m", "i", "s", "s", "i", "n", "g", " ", "'", "b", "r", "a", "n", "c", "h",
                     "_", "n", "a", "m", "e", "'" >> >>
             ELSE IF \E a \in 1..(b - 1) :
                       /\ branches[a].is_dict
                       /\ HasBranchName(branches[a])
                       /\ branches[a].branch_name = branches[b].branch_name
               THEN << << "D", "u", "p", "l", "i", "c", "a", "t", "e", " ", "b", "r", "a", "n",
                     "c", "h", " ", "n", "a", "m", "e", ":", " ",
                     "'" >> \o branches[b].branch_name \o << "'" >> >>
             ELSE << >>)
            \o (IF "agents" \notin branches[b].keys
                  THEN << << "B", "r", "a", "n", "c", "h", " " >> \o NatToText(b - 1) \o << " ",
                        "(" >> \o BranchNameText(branches[b])
                            \o << ")", " ", "m", "i", "s", "s", "i", "n", "g", " ", "'", "a",
                                  "g", "e", "n", "t", "s", "'" >> >>
                ELSE IF branches[b].agents_type # "list" \/ Len(branches[b].agents) = 0
                  THEN << << "B", "r", "a", "n", "c", "h", " " >> \o NatToText(b - 1) \o << " ",
                        "(" >> \o BranchNameText(branches[b])
                            \o << ")", " ", "m", "u", "s", "t", " ", "h", "a", "v", "e", " ",
                                  "a", "t", " ", "l", "e", "a", "s", "t", " ", "o", "n", "e",
                                  " ", "a", "g", "e", "n", "t" >> >>
                ELSE << >>)])

\* ParallelPatternExecutor._validate_synthesis_agents, for a list
validate_synthesis_agents(synthesis_agents) ==
  FlatMap(Len(synthesis_agents),
    [k \in 1..Len(synthesis_agents) |->
       IF ~synthesis_agents[k].is_dict
         THEN << << "S", "y", "n", "t", "h", "e", "s", "i", "s", " ", "a", "g", "e", "n", "t",
               " " >> \o NatToText(k - 1) \o << " ", "m", "u", "s", "t", " ", "b", "e", " ",
               "a", " ", "d", "i", "c", "t", "i", "o", "n", "a", "r", "y" >> >>
       ELSE
         (IF "type" \notin synthesis_agents[k].keys
            THEN << << "S", "y", "n", "t", "h", "e", "s", "i", "s", " ", "a", "g", "e", "n",
                  "t", " " >> \o NatToText(k - 1) \o << " ", "m", "i", "s", "s", "i", "n", "g",
                  " ", "'", "t", "y", "p", "e", "'" >> >> ELSE << >>)
         \o (IF "depends_on" \notin synthesis_agents[k].keys
               THEN << << "S", "y", "n", "t", "h", "e", "s", "i", "s", " ", "a", "g", "e", "n",
                     "t", " " >> \o NatToText(k - 1) \o << " ", "s", "h", "o", "u", "l", "d",
                     " ", "s", "p", "e", "c", "i", "f", "y", " ", "d", "e", "p", "e", "n", "d",
                     "e", "n", "c", "i", "e", "s" >> >>
             ELSE IF synthesis_agents[k].depends_on_type # "list"
               THEN << << "S", "y", "n", "t", "h", "e", "s", "i", "s", " ", "a", "g", "e", "n",
                     "t", " " >> \o NatToText(k - 1) \o << " ", "'", "d", "e", "p", "e", "n",
                     "d", "s", "_", "o", "n", "'", " ", "m", "u", "s", "t", " ", "b", "e", " ",
                     "a", " ", "l", "i", "s", "t" >> >>
             ELSE << >>)])

\* ParallelPatternExecutor._validate_synchronization_config
validate_synchronization_config(sync_config) ==
  IF ~sync_config.is_dict THEN << << "'", "s", "y", "n", "c", "h", "r", "o", "n", "i", "z", "a",
        "t", "i", "o", "n", "'", " ", "m", "u", "s", "t", " ", "b", "e", " ", "a", " ", "d",
        "i", "c", "t", "i", "o", "n", "a", "r", "y" >> >>
  ELSE
    (IF "wait_for_all_branches" \in sync_config.keys /\ sync_config.wait_for_all_branches.t # "bool"
       THEN << << "'", "w", "a", "i", "t", "_", "f", "o", "r", "_", "a", "l", "l", "_", "b",
             "r", "a", "n", "c", "h", "e", "s", "'", " ", "m", "u", "s", "t", " ", "b", "e",
             " ", "a", " ", "b", "o", "o", "l", "e", "a", "n" >> >> ELSE << >>)
    \o (IF "branch_timeout_seconds" \in sync_config.keys
            /\ (~IsNumber(sync_config.branch_timeout_seconds)
                \/ ~NumLess(IntV(0), sync_config.branch_timeout_seconds))
          THEN << << "'", "b", "r", "a", "n", "c", "h", "_", "t", "i", "m", "e", "o", "u", "t",
                "_", "s", "e", "c", "o", "n", "d", "s", "'", " ", "m", "u", "s", "t", " ", "b",
                "e", " ", "a", " ", "p", "o", "s", "i", "t", "i", "v", "e", " ", "n", "u", "m",
                "b", "e", "r" >> >> ELSE << >>)
    \o (IF "partial_completion_threshold" \in sync_config.keys
            /\ (~IsNumber(sync_config.partial_completion_threshold)
                \/ NumLess(sync_config.partial_completion_threshold, IntV(0))
                \/ NumLess(IntV(1), sync_config.partial_completion_threshold))
          THEN << << "'", "p", "a", "r", "t", "i", "a", "l", "_", "c", "o", "m", "p", "l", "e",
                "t", "i", "o", "n", "_", "t", "h", "r", "e", "s", "h", "o", "l", "d", "'", " ",
                "m", "u", "s", "t", " ", "b", "e", " ", "b", "e", "t", "w", "e", "e", "n", " ",
                "0", ".", "0", " ", "a", "n", "d", " ", "1", ".", "0" >> >> ELSE << >>)

\* ParallelPatternExecutor.validate_config
parallel_validate_config(pattern_config) ==
  validate_base_config(pattern_config)
  \o (IF pattern_config.pattern_type # TextParallel
        THEN << << "P", "a", "t", "t", "e", "r", "n", " ", "t", "y", "p", "e", " ", "m", "u",
              "s", "t", " ", "b", "e", " ", "'", "p", "a", "r", "a", "l", "l", "e", "l", "'",
              " ", "f", "o", "r", " ", "P", "a", "r", "a", "l", "l", "e", "l", "P", "a", "t",
              "t", "e", "r", "n", "E", "x", "e", "c", "u", "t", "o", "r" >> >> ELSE << >>)
  \o (IF "parallel_branches" \notin pattern_config.keys THEN << >>
      ELSE IF pattern_config.parallel_branches_type # "list"
        THEN << << "'", "p", "a", "r", "a", "l", "l", "e", "l", "_", "b", "r", "a", "n", "c",
              "h", "e", "s", "'", " ", "m", "u", "s", "t", " ", "b", "e", " ", "a", " ", "l",
              "i", "s", "t" >> >>
      ELSE validate_parallel_branches(pattern_config.parallel_branches))
  \o (IF "synthesis_agents" \notin pattern_config.keys THEN << >>
      ELSE IF pattern_config.synthesis_agents_type # "list"
        THEN << << "'", "s", "y", "n", "t", "h", "e", "s", "i", "s", "_", "a", "g", "e", "n",
              "t", "s", "'", " ", "m", "u", "s", "t", " ", "b", "e", " ", "a", " ", "l", "i",
              "s", "t" >> >>
      ELSE validate_synthesis_agents(pattern_config.synthesis_agents))
  \o (IF "synchronization" \notin pattern_config.keys THEN << >>
      ELSE validate_synchronization_config(pattern_config.synchronization))

\* a coroutine of execute_agent: the agent entry it runs, the phase and the
\* branch that called it, where it stands ("created", "awaiting", "done",
\* "failed"), what Runner.run is going to give and at what time the await
\* ends, and the times it started and finished at
Task(agent, phase, branch_name) ==
  [agent |-> agent, phase |-> phase, branch |-> branch_name, pc |-> "created",
   outcome |-> "none", due |-> 0, started_at |-> 0, finished_at |-> 0]

\* the agents of execution_stage "initial"
InitialAgents(pattern_config) ==
  SelectSeq(GetAgents(pattern_config), LAMBDA agent : agent.execution_stage = "initial")

\* pattern_config.get("synthesis_agents", [])
SynthesisAgents(pattern_config) ==
  IF "synthesis_agents" \in pattern_config.keys THEN pattern_config.synthesis_agents ELSE << >>

\* the loops of _execute_parallel_branches: one coroutine for every agent of
\* every branch, in the order of the declaration
BranchTasks(branches) ==
  FlatMap(Len(branches),
    [b \in 1..Len(branches) |->
       [k \in 1..Len(branches[b].agents) |->
          Task(branches[b].agents[k], "branch", branches[b].branch_name)]])

\* the audit entries of these loops
BranchAudit(trail, branches) ==
  add_audit_entry(trail, Entry("starting_branches", NatToText(Len(branches)), << >>))
  \o [b \in 1..Len(branches) |-> Entry("creating_task", branches[b].branch_name, << >>)]

\* the mutant of the scheduling that starts a coroutine when the one before
\* it has finished
StartableAfterPrevious(ts, k) ==
  \A j \in 1..(k - 1) : ts[j].pc \in {"done", "failed"}

\* asyncio.gather wraps every coroutine in a task and the event loop starts
\* the tasks in that order, each running up to its first suspension
Startable(ts, k) ==
  \A j \in 1..(k - 1) : ts[j].pc # "created"

\* the mutant of gather that returns with the first coroutine that finished
GatherFirstDone(ts) ==
  \E k \in 1..Len(ts) : ts[k].phase = "branch" /\ ts[k].pc \in {"done", "failed"}

\* "await asyncio.gather(*tasks, return_exceptions=True)" returns: every
\* coroutine has finished
GatherDone(ts) ==
  \A k \in 1..Len(ts) : ts[k].phase = "branch" => ts[k].pc \in {"done", "failed"}

\* the mutant of the except clause that catches ValueError only
BranchCatchesValueError(exception) == exception.type = "ValueError"

\* "except Exception as e" of _execute_branch_agent
BranchCatches(exception) == TRUE

\* the mutant of the dependency check that finds every dependency
MissingDependenciesNone(agent, ctx_results) == << >>

\* getattr(context, f"{dependency}_result", None) is None for a dependency
MissingDependencies(agent, ctx_results) ==
  SelectSeq(agent.depends_on, LAMBDA dependency : dependency \notin DOMAIN ctx_results)

\* the state of the context a piece of code leaves, with the exception it raised
Outcome(exception, trail, errs, log, ctx_results, durations) ==
  [exception |-> exception, audit_trail |-> trail, errors |-> errs, delivered |-> log,
   results |-> ctx_results, agent_durations |-> durations]

\* the except clause of execute_agent
AgentRaises(exception, agent_type, trail, errs, log, ctx_results, durations) ==
  Outcome(exception,
          add_audit_entry(trail, Entry("agent_failed", agent_type, exception.text)),
          Append(errs, Entry("agent_failed", agent_type, exception.text)),
          notify(progress_callback, log, Event("agent_error", agent_type)).delivered,
          ctx_results, durations)

\* execute_agent up to its await of Runner.run: create_configured_agent can
\* raise and the connection of an MCP server can fail (the wait for the
\* connection is taken as part of the step)
ExecuteAgentBegin(agent, trail, errs, log, ctx_results, durations) ==
  LET executing == add_audit_entry(
                     add_audit_entry(trail, Entry("executing_agent", agent.type, << >>)),
                     Entry("agent_starting", agent.type, << >>))
      started == notify(progress_callback, log, Event("agent_started", agent.type)).delivered
  IN  { AgentRaises(Exception("ValueError", ShortErrorText), agent.type, executing, errs,
                    started, ctx_results, durations),
        AgentRaises(Exception("RuntimeError",
                      << "C", "a", "n", "n", "o", "t", " ", "e", "x", "e", "c", "u", "t", "e",
                            " " >> \o agent.type \o << " ", "a", "g", "e", "n", "t", ":", " ",
                            "M", "C", "P", " ", "s", "e", "r", "v", "e", "r", " ", "1", " ",
                            "c", "o", "n", "n", "e", "c", "t", "i", "o", "n", " ", "f", "a",
                            "i", "l", "e", "d", ":", " " >>
                        \o ShortErrorText),
                    agent.type,
                    add_audit_entry(
                      add_audit_entry(executing, Entry("mcp_connecting", agent.type, << >>)),
                      Entry("mcp_failed", agent.type, ShortErrorText)),
                    errs, started, ctx_results, durations),
        Outcome(NoException,
                add_audit_entry(executing, Entry("sending_request", agent.type, << >>)), errs,
                notify(progress_callback, started, Event("agent_thinking", agent.type)).delivered,
                ctx_results, durations) }

\* execute_agent from the end of its await: wait_for raised TimeoutError,
\* Runner.run raised, or the result is parsed, stored and checked against the
\* success conditions
ExecuteAgentEnd(task, duration, trail, errs, log, ctx_results, durations) ==
  LET agent_type == task.agent.type
      stored == add_audit_entry(
                  add_audit_entry(
                    add_audit_entry(trail, Entry("received_response", agent_type, << >>)),
                    Entry("debug_returned", agent_type, << >>)),
                  Entry("agent_completed", agent_type, << >>))
      completed == notify(progress_callback, log, Event("agent_completed", agent_type)).delivered
  IN  IF task.outcome = "timeout"
        THEN { AgentRaises(Exception("RuntimeError",
                             agent_type \o << " ", "a", "g", "e", "n", "t", " ", "t", "i", "m",
                                   "e", "d", " ", "o", "u", "t", " ", "a", "f", "t", "e", "r",
                                   " " >>
                               \o NatToText(task.agent.timeout_seconds) \o << " ", "s", "e",
                                     "c", "o", "n", "d", "s" >>),
                           agent_type, trail, errs, log, ctx_results, durations) }
      ELSE IF task.outcome = "raises"
        THEN { AgentRaises(Exception("Exception", ShortErrorText), agent_type, trail, errs, log,
                           ctx_results, durations) }
      ELSE { IF validate_success_conditions(task.agent.success_conditions, parsed_result)
               THEN Outcome(NoException, stored, errs, completed,
                            SetResult(ctx_results, agent_type, parsed_result),
                            SetDuration(durations, agent_type, duration))
             ELSE AgentRaises(Exception("ValueError",
                                agent_type \o << " ", "a", "g", "e", "n", "t", " ", "d", "i",
                                      "d", " ", "n", "o", "t", " ", "m", "e", "e", "t", " ",
                                      "s", "u", "c", "c", "e", "s", "s", " ", "c", "o", "n",
                                      "d", "i", "t", "i", "o", "n", "s" >>),
                              agent_type, stored, errs, completed,
                              SetResult(ctx_results, agent_type, parsed_result),
                              SetDuration(durations, agent_type, duration))
             : parsed_result \in ParallelResults }

\* _handle_branch_failure after the audit entry of the except clause of
\* _execute_branch_agent
BranchFailure(o, agent_type, branch_name) ==
  LET text == branch_name \o << ":", " " >> \o o.exception.text
  IN  [o EXCEPT !.audit_trail =
                  add_audit_entry(add_audit_entry(@, Entry("branch_agent_failed", agent_type, text)),
                                  Entry("branch_failure", agent_type, text)),
                !.errors = Append(@, Entry("branch_failure", agent_type, text))]

\* the outcome of a coroutine of _execute_branch_agent: its except clause
\* handles the exception; one it does not catch ends the coroutine, and
\* gather keeps it as the coroutine's result (return_exceptions=True)
BranchOutcome(o, agent_type, branch_name) ==
  IF o.exception # NoException /\ BranchCatches(o.exception)
    THEN BranchFailure(o, agent_type, branch_name) ELSE o

InitParallel ==
  /\ pattern \in ParallelPatterns
  /\ pc = "parallel_call"
  /\ i = 0
  /\ results = NoResults
  /\ agent_durations = << >>
  /\ audit_trail = << >>
  /\ errors = << >>
  /\ exc = NoException
  /\ decision = NoDecision
  /\ escaped = FALSE
  /\ invocations = << >>
  /\ completions = << >>
  /\ runner_calls = << >>
  /\ handoff_checks = << >>
  /\ blocked_at = 0
  /\ failed_at = 0
  /\ probe = << >>
  /\ pattern_cache = EmptyCache
  /\ pattern_files = NoFiles
  /\ loads = << >>
  /\ answer = NoAnswer
  /\ progress_callback = "none"
  /\ delivered = << >>
  /\ tasks = << >>
  /\ clock = 0

\* the context takes the state a piece of code left
ContextBecomes(o) ==
  /\ audit_trail' = o.audit_trail
  /\ errors' = o.errors
  /\ delivered' = o.delivered
  /\ results' = o.results
  /\ agent_durations' = o.agent_durations

\* a coroutine after execute_agent ran up to its await or raised: failed, or
\* awaiting Runner.run until the answer or the timeout, whichever is first
Begun(task, exception, latency, outcome) ==
  IF exception # NoException
    THEN [task EXCEPT !.pc = "failed", !.started_at = clock, !.finished_at = clock]
  ELSE [task EXCEPT !.pc = "awaiting", !.outcome = outcome, !.started_at = clock,
                    !.due = clock + (IF latency < task.agent.timeout_seconds
                                       THEN latency ELSE task.agent.timeout_seconds)]

\* a coroutine whose await ended
Ended(task, exception) ==
  [task EXCEPT !.pc = IF exception = NoException THEN "done" ELSE "failed",
               !.finished_at = clock]

\* execute up to the loop of _execute_initial_agents
ParallelExecute ==
  /\ pc = "parallel_call"
  /\ audit_trail' =
       add_audit_entry(add_audit_entry(audit_trail, Entry("parallel_start", << >>, << >>)),
                       Entry("executing_initial", NatToText(Len(InitialAgents(pattern))), << >>))
  /\ pc' = "initial"
  /\ i' = 1
  /\ UNCHANGED << pattern, progress_callback, tasks, clock, delivered, results, agent_durations,
                  errors, exc, decision, escaped, invocations, completions, runner_calls,
                  handoff_checks, blocked_at, failed_at, probe, answer,
                  pattern_cache, pattern_files, loads >>

\* the mutant of the two loops that go on to the next stage after a failure
PropagatesNever(exception) == FALSE

\* the loops of _execute_initial_agents and _execute_synthesis_agents await
\* execute_agent outside of any try statement: its exception leaves the
\* loop, and execute with it
Propagates(exception) == exception # NoException

\* "await self.agent_execution_service.execute_agent(...)" of the loops of
\* _execute_initial_agents and _execute_synthesis_agents, up to the await of
\* Runner.run: an exception leaves execute
CallExecuteAgent(agent, phase, trail) ==
  \E o \in ExecuteAgentBegin(agent, trail, errors, delivered, results, agent_durations) :
    \E latency \in 1..MaxLatency :
      \E outcome \in RunnerOutcomes(latency, agent.timeout_seconds) :
        /\ ContextBecomes(o)
        /\ invocations' = Append(invocations, agent.type)
        /\ tasks' = Append(tasks, Begun(Task(agent, phase, << >>), o.exception, latency, outcome))
        /\ IF Propagates(o.exception)
             THEN /\ exc' = o.exception
                  /\ pc' = "raised"
                  /\ UNCHANGED runner_calls
             ELSE /\ runner_calls' = Append(runner_calls, agent.type)
                  /\ UNCHANGED << exc, pc >>
        /\ UNCHANGED << pattern, progress_callback, clock, i, decision, escaped, completions,
                        handoff_checks, blocked_at, failed_at, probe, answer,
                        pattern_cache, pattern_files, loads >>

\* no coroutine of the initial or the synthesis phase is awaited
NoneAwaited == \A k \in 1..Len(tasks) : tasks[k].phase = "branch" \/ tasks[k].pc # "awaiting"

\* one pass of the loop of _execute_initial_agents, up to the await of Runner.run
ExecuteInitialAgent ==
  /\ pc = "initial"
  /\ i <= Len(InitialAgents(pattern))
  /\ NoneAwaited
  /\ CallExecuteAgent(InitialAgents(pattern)[i], "initial",
       add_audit_entry(audit_trail,
                       Entry("executing_initial_agent", InitialAgents(pattern)[i].type, << >>)))

\* the audit entry _execute_synthesis_agents starts with
EnterSynthesis(trail) ==
  IF SynthesisAgents(pattern) # << >>
    THEN add_audit_entry(trail, Entry("executing_synthesis",
                                      NatToText(Len(SynthesisAgents(pattern))), << >>))
  ELSE trail

\* _execute_initial_agents returned: _execute_parallel_branches creates the
\* coroutines and hands them to asyncio.gather
ExecuteParallelBranches ==
  /\ pc = "initial"
  /\ i > Len(InitialAgents(pattern))
  /\ IF "parallel_branches" \in pattern.keys
       THEN IF BranchTasks(pattern.parallel_branches) # << >>
              THEN /\ tasks' = tasks \o BranchTasks(pattern.parallel_branches)
                   /\ audit_trail' =
                        add_audit_entry(BranchAudit(audit_trail, pattern.parallel_branches),
                          Entry("executing_concurrently",
                                NatToText(Len(BranchTasks(pattern.parallel_branches))), << >>))
                   /\ pc' = "branches"
                   /\ i' = i
              ELSE /\ tasks' = tasks
                   /\ audit_trail' = EnterSynthesis(BranchAudit(audit_trail, pattern.parallel_branches))
                   /\ pc' = "synthesis"
                   /\ i' = 1
       ELSE /\ tasks' = tasks
            /\ audit_trail' = EnterSynthesis(audit_trail)
            /\ pc' = "synthesis"
            /\ i' = 1
  /\ UNCHANGED << pattern, progress_callback, clock, delivered, results, agent_durations,
                  errors, exc, decision, escaped, invocations, completions, runner_calls,
                  handoff_checks, blocked_at, failed_at, probe, answer,
                  pattern_cache, pattern_files, loads >>

\* a coroutine of _execute_branch_agent runs from its start to the await of
\* Runner.run, or to its end when a dependency has no result or
\* create_configured_agent raises
ExecuteBranchAgent ==
  /\ pc = "branches"
  /\ \E k \in 1..Len(tasks) :
       /\ tasks[k].phase = "branch"
       /\ tasks[k].pc = "created"
       /\ Startable(tasks, k)
       /\ LET agent == tasks[k].agent
              trail == add_audit_entry(audit_trail,
                                       Entry("executing_in_branch", agent.type, tasks[k].branch))
              missing == MissingDependencies(agent, results)
          IN  IF missing # << >>
                THEN /\ ContextBecomes(
                          BranchOutcome(
                            Outcome(Exception("ValueError",
                                      << "D", "e", "p", "e", "n", "d", "e", "n", "c", "y", " ",
                                            "'" >> \o missing[1] \o << "'", " ", "n", "o", "t",
                                            " ", "s", "a", "t", "i", "s", "f", "i", "e", "d",
                                            " ", "f", "o", "r", " ", "a", "g", "e", "n", "t",
                                            " ", "'" >>
                                        \o agent.type \o << "'" >>),
                                    trail, errors, delivered, results, agent_durations),
                            agent.type, tasks[k].branch))
                     /\ tasks' = [tasks EXCEPT ![k] = Begun(@, Exception("ValueError", << >>), 0, "none")]
                     /\ UNCHANGED << invocations, runner_calls >>
              ELSE \E o \in ExecuteAgentBegin(agent, trail, errors, delivered, results, agent_durations) :
                     \E latency \in 1..MaxLatency :
                       \E outcome \in RunnerOutcomes(latency, agent.timeout_seconds) :
                         /\ ContextBecomes(BranchOutcome(o, agent.type, tasks[k].branch))
                         /\ tasks' = [tasks EXCEPT ![k] = Begun(@, o.exception, latency, outcome)]
                         /\ invocations' = Append(invocations, agent.type)
                         /\ runner_calls' = IF o.exception = NoException
                                              THEN Append(runner_calls, agent.type) ELSE runner_calls
  /\ UNCHANGED << pattern, progress_callback, clock, pc, i, exc, decision, escaped, completions,
                  handoff_checks, blocked_at, failed_at, probe, answer,
                  pattern_cache, pattern_files, loads >>

\* the await of Runner.run of a coroutine ends and the coroutine runs to its
\* end: in a branch its own except clause handles a failure, in the initial
\* and the synthesis phase the exception leaves execute
RunnerCompletes ==
  /\ pc \in {"initial", "branches", "synthesis"}
  /\ \E k \in 1..Len(tasks) :
       /\ tasks[k].pc = "awaiting"
       /\ tasks[k].due = clock
       /\ \E o \in ExecuteAgentEnd(tasks[k], clock - tasks[k].started_at, audit_trail, errors,
                                   delivered, results, agent_durations) :
            LET agent_type == tasks[k].agent.type
                returned == [o EXCEPT !.audit_trail =
                               add_audit_entry(@, Entry("completed_" \o tasks[k].phase, agent_type,
                                                        tasks[k].branch))]
            IN  /\ tasks' = [tasks EXCEPT ![k] = Ended(@, o.exception)]
                /\ completions' = IF o.exception = NoException
                                    THEN Append(completions, agent_type) ELSE completions
                /\ IF tasks[k].phase = "branch"
                     THEN /\ ContextBecomes(IF o.exception = NoException THEN returned
                                            ELSE BranchOutcome(o, agent_type, tasks[k].branch))
                          /\ UNCHANGED << pc, i, exc >>
                   ELSE IF ~Propagates(o.exception)
                     THEN /\ ContextBecomes(returned)
                          /\ i' = i + 1
                          /\ UNCHANGED << pc, exc >>
                   ELSE /\ ContextBecomes(o)
                        /\ exc' = o.exception
                        /\ pc' = "raised"
                        /\ i' = i
  /\ UNCHANGED << pattern, progress_callback, clock, decision, escaped, invocations, runner_calls,
                  handoff_checks, blocked_at, failed_at, probe, answer,
                  pattern_cache, pattern_files, loads >>

\* the event loop has nothing to run: time passes up to the next answer or timeout
Tick ==
  /\ pc \in {"initial", "branches", "synthesis"}
  /\ \E k \in 1..Len(tasks) : tasks[k].pc = "awaiting"
  /\ \A k \in 1..Len(tasks) : tasks[k].pc = "awaiting" => tasks[k].due > clock
  /\ \A k \in 1..Len(tasks) : ~(pc = "branches" /\ tasks[k].pc = "created" /\ Startable(tasks, k))
  /\ clock' = clock + 1
  /\ UNCHANGED << pattern, progress_callback, tasks, delivered, pc, i, results, agent_durations,
                  audit_trail, errors, exc, decision, escaped, invocations, completions,
                  runner_calls, handoff_checks, blocked_at, failed_at, probe, answer,
                  pattern_cache, pattern_files, loads >>

\* asyncio.gather returns: _execute_parallel_branches ends and
\* _execute_synthesis_agents begins
GatherReturns ==
  /\ pc = "branches"
  /\ GatherDone(tasks)
  /\ audit_trail' =
       EnterSynthesis(add_audit_entry(audit_trail, Entry("all_branches_completed", << >>, << >>)))
  /\ pc' = "synthesis"
  /\ i' = 1
  /\ UNCHANGED << pattern, progress_callback, tasks, clock, delivered, results, agent_durations,
                  errors, exc, decision, escaped, invocations, completions, runner_calls,
                  handoff_checks, blocked_at, failed_at, probe, answer,
                  pattern_cache, pattern_files, loads >>

\* one pass of the loop of _execute_synthesis_agents, up to the await of
\* Runner.run: a dependency without result gives a warning in the audit trail
ExecuteSynthesisAgent ==
  /\ pc = "synthesis"
  /\ i <= Len(SynthesisAgents(pattern))
  /\ NoneAwaited
  /\ CallExecuteAgent(SynthesisAgents(pattern)[i], "synthesis",
       add_audit_entry(
         audit_trail
         \o [d \in 1..Len(MissingDependencies(SynthesisAgents(pattern)[i], results)) |->
               Entry("missing_dependency", SynthesisAgents(pattern)[i].type,
                     MissingDependencies(SynthesisAgents(pattern)[i], results)[d])],
         Entry("executing_synthesis_agent", SynthesisAgents(pattern)[i].type, << >>)))

\* the loop of _execute_synthesis_agents has run through: execute returns
ParallelEnd ==
  /\ pc = "synthesis"
  /\ i > Len(SynthesisAgents(pattern))
  /\ audit_trail' = add_audit_entry(audit_trail, Entry("parallel_completed", << >>, << >>))
  /\ pc' = "executor_done"
  /\ UNCHANGED << pattern, progress_callback, tasks, clock, delivered, i, results,
                  agent_durations, errors, exc, decision, escaped, invocations, completions,
                  runner_calls, handoff_checks, blocked_at, failed_at, probe, answer,
                  pattern_cache, pattern_files, loads >>

NextParallel ==
  \/ ParallelExecute
  \/ ExecuteInitialAgent
  \/ ExecuteParallelBranches
  \/ ExecuteBranchAgent
  \/ RunnerCompletes
  \/ Tick
  \/ GatherReturns
  \/ ExecuteSynthesisAgent
  \/ ParallelEnd

SpecParallel == InitParallel /\ [][NextParallel]_vars

(***************************************************************************)
(* SafeConditionEvaluator._parse_value applied on its own                  *)
(***************************************************************************)

\* a value literal with the value the documented priority gives it
\* (claimed) and the value it has when "null" is no name of None (amended)
ParseCase(text, claimed, amended) == [text |-> text, claimed |-> claimed, amended |-> amended]

SameCase(text, value) == ParseCase(text, value, value)

ScalarCases ==
  { SameCase(<< "'", "b", "'" >>, StrV(<< "b" >>)),
    SameCase(<< "\"", "6", "5", "0", "\"" >>, StrV(<< "6", "5", "0" >>)),
    SameCase(<< "'", "[", "1", "]", "'" >>, StrV(<< "[", "1", "]" >>)),
    SameCase(<< "'", "t", "r", "u", "e", "'" >>, StrV(<< "t", "r", "u", "e" >>)),
    SameCase(<< "6", "5", "0" >>, IntV(650)),
    SameCase(<< "-", "5" >>, IntV(0 - 5)),
    SameCase(<< "0", ".", "2", "5" >>, FloatV(25, 2)),
    SameCase(<< "t", "r", "u", "e" >>, BoolV(TRUE)),
    SameCase(<< "F", "a", "l", "s", "e" >>, BoolV(FALSE)),
    SameCase(<< "n", "o", "n", "e" >>, NoneV),
    SameCase(<< "N", "o", "n", "e" >>, NoneV),
    ParseCase(<< "n", "u", "l", "l" >>, NoneV, StrV(<< "n", "u", "l", "l" >>)),
    SameCase(<< "a", "p", "p", "r", "o", "v", "e", "d" >>, StrV(<< "a", "p", "p", "r", "o", "v",
          "e", "d" >>)),
    SameCase(<< "t", "r", "u", "e", "l", "y" >>, StrV(<< "t", "r", "u", "e", "l", "y" >>)) }

\* a list of two items, with spaces around the second item
ListCases ==
  { ParseCase(<< "[" >> \o a.text \o << ",", " ", " " >> \o b.text \o << " ", "]" >>,
              ListV(<< a.claimed, b.claimed >>), ListV(<< a.amended, b.amended >>)) :
      a \in ScalarCases, b \in ScalarCases }

ParseCases ==
  ScalarCases \cup ListCases
  \cup { SameCase(<< "[", "]" >>, ListV(<< >>)), SameCase(<< "[", " ", " ", "]" >>, ListV(<< >>)),
         SameCase(<< " ", " ", "6", "5", "0", " " >>, IntV(650)), SameCase(<< "[", "6", "5",
               "0", "]" >>, ListV(<< IntV(650) >>)) }

InitParse ==
  /\ pattern = Pattern(AllKeys, TextSequential, Chain(2, << >>), NoRules, EmptyMatrix)
  /\ probe \in ParseCases
  /\ pattern_cache = EmptyCache
  /\ pattern_files = NoFiles
  /\ loads = << >>
  /\ results = NoResults
  /\ pc = "parse_call"
  /\ i = 0
  /\ agent_durations = << >>
  /\ audit_trail = << >>
  /\ errors = << >>
  /\ exc = NoException
  /\ decision = NoDecision
  /\ escaped = FALSE
  /\ invocations = << >>
  /\ completions = << >>
  /\ runner_calls = << >>
  /\ handoff_checks = << >>
  /\ blocked_at = 0
  /\ failed_at = 0
  /\ answer = NoAnswer
  /\ progress_callback = "none"
  /\ delivered = << >>
  /\ tasks = << >>
  /\ clock = 0

\* cls._parse_value(value_str)
ParseValue ==
  /\ pc = "parse_call"
  /\ answer' = parse_value(probe.text)
  /\ pc' = "parse_done"
  /\ UNCHANGED << pattern, progress_callback, tasks, clock, delivered, i, results,
                  agent_durations, audit_trail, errors, exc, decision, escaped, invocations,
                  completions, runner_calls, handoff_checks, blocked_at, failed_at, probe,
                  pattern_cache, pattern_files, loads >>

NextParse == ParseValue

SpecParse == InitParse /\ [][NextParse]_vars

(***************************************************************************)
(* validate_config of the two executors applied on its own                 *)
(***************************************************************************)

\* the dependencies stage k of a chain may declare: none, the stage before
\* it, another stage, or both
DependsChoices(k) ==
  IF k = 1 THEN {<< >>, << StageOrder[2] >>}
  ELSE {<< >>, << StageOrder[k - 1] >>, << StageOrder[(k % Len(StageOrder)) + 1] >>,
        << StageOrder[(k % Len(StageOrder)) + 1], StageOrder[k - 1] >>}

\* the stage lists of 0 to MaxStages stage dictionaries
StageLists ==
  UNION {{[k \in 1..n |-> AgentConfig(StageOrder[k], << >>, d[k])] :
            d \in {f \in [1..n -> UNION {DependsChoices(k) : k \in 1..n}] :
                     \A k \in 1..n : f[k] \in DependsChoices(k)}} :
         n \in 0..MaxStages}

\* a handoff_rules section: whether the key is there, the type of its value
\* and the rules
RulesSection(present, type, rules) == [present |-> present, type |-> type, rules |-> rules]

RulesSections ==
  {RulesSection(FALSE, "list", << >>), RulesSection(TRUE, "list", << >>),
   RulesSection(TRUE, "dict", << >>),
   RulesSection(TRUE, "list", << HandoffRule(Intake, Risk, << CondPassed >>) >>),
   RulesSection(TRUE, "list", << HandoffRule(Fraud, Intake, << CondPassed >>) >>),
   RulesSection(TRUE, "list", << HandoffRule(Intake, Fraud, << CondPassed >>) >>),
   RulesSection(TRUE, "list",
     << [HandoffRule(Intake, Risk, << CondPassed >>) EXCEPT !.keys = {"to", "conditions"}] >>),
   RulesSection(TRUE, "list",
     << [HandoffRule(Intake, Risk, << CondPassed >>) EXCEPT !.keys = {"from", "conditions"}] >>),
   RulesSection(TRUE, "list",
     << HandoffRule(Intake, Risk, << >>),
        [HandoffRule(Intake, Risk, << >>) EXCEPT !.conditions_type = "str"] >>),
   RulesSection(TRUE, "list", << HandoffRule(Intake, Risk, << CondPassed, NoneCondition >>) >>),
   RulesSection(TRUE, "list",
     << [HandoffRule(Intake, Risk, << >>) EXCEPT !.keys = {"from", "to"}] >>)}

\* a sequential pattern configuration
SequentialConfig(keys, pattern_type, agents_type, agents, section) ==
  [Pattern(IF section.present THEN keys ELSE keys \ {"handoff_rules"}, pattern_type, agents,
           section.rules, EmptyMatrix)
     EXCEPT !.agents_type = agents_type, !.handoff_rules_type = section.type]

\* "not_a_list" as a value of agents: iterating it gives its characters
StrAgents(text) ==
  [k \in 1..Len(text) |->
     [AgentConfig(<< text[k] >>, << >>, << >>) EXCEPT !.is_dict = FALSE, !.keys = {}]]

\* a stage entry that is a string, and one that has no type
NotADict == [AgentConfig(<< "n", "o", "t", "_", "a", "_", "d", "i", "c",
      "t" >>, << >>, << >>) EXCEPT !.is_dict = FALSE, !.keys = {}]
NoType(agent) == [agent EXCEPT !.keys = @ \ {"type"}]

\* the stage lists of test_validate_base_config_invalid_agent_format and the
\* like: an entry is no dictionary, or has no type
MalformedStageLists ==
  {<< NotADict, AgentConfig(Risk, << >>, << >>) >>,
   << AgentConfig(Intake, << >>, << >>), NotADict >>,
   << NoType(AgentConfig(Intake, << >>, << >>)), AgentConfig(Risk, << >>, << Intake >>) >>,
   << AgentConfig(Intake, << >>, << >>), NoType(AgentConfig(Risk, << >>, << Intake >>)) >>,
   << NoType(AgentConfig(Intake, << >>, << >>)), NotADict >>,
   << NotADict >>}

\* the configurations SequentialPatternExecutor.validate_config is called with
SequentialConfigs ==
  {SequentialConfig(AllKeys, TextSequential, "list", agents, section) :
     agents \in StageLists, section \in RulesSections}
  \cup {SequentialConfig(keys, pattern_type, "list", Chain(2, << >>), section) :
          keys \in {AllKeys \ {"name"}, AllKeys \ {"version"}, AllKeys \ {"agents"}},
          pattern_type \in {TextSequential, TextParallel}, section \in RulesSections}
  \cup {SequentialConfig(AllKeys, TextParallel, "list", Chain(2, << >>), section) :
          section \in RulesSections}
  \cup {SequentialConfig(AllKeys, TextSequential, "list", agents, section) :
          agents \in MalformedStageLists
                     \cup {<< AgentConfig(Intake, << >>, << >>), AgentConfig(Fraud, << >>, << >>) >>,
                           << AgentConfig(Intake, << >>, << >>),
                              [AgentConfig(Risk, << >>, << >>) EXCEPT !.keys = {"type"}] >>},
          section \in RulesSections}
  \cup {SequentialConfig(AllKeys, TextSequential, type[1], type[2], section) :
          type \in {<< "str", StrAgents(<< "n", "o", "t", "_", "a", "_", "l", "i", "s",
                "t" >>) >>, << "NoneType", << >> >>,
                    << "dict", << >> >>},
          section \in RulesSections}

BranchNameCredit == << "c", "r", "e", "d", "i", "t", "_", "b", "r", "a", "n", "c", "h" >>

\* the branches a parallel_branches list is made of: two well-formed ones, one
\* with the name of the first, one without a name, without agents, with an
\* empty list of agents, with agents that are no list, and one that is no
\* dictionary
BranchChoices ==
  {BranchCredit, BranchIncome,
   Branch(BranchNameCredit, << StageConfig(Income, "parallel", 1, << >>, << Intake >>) >>),
   [BranchIncome EXCEPT !.keys = {"agents"}],
   [BranchIncome EXCEPT !.keys = {"branch_name"}, !.agents = << >>],
   Branch(<< "i", "n", "c", "o", "m", "e", "_", "b", "r", "a", "n", "c", "h" >>, << >>),
   [BranchIncome EXCEPT !.agents_type = "str", !.agents = << >>],
   [BranchIncome EXCEPT !.is_dict = FALSE, !.keys = {}]}

\* a section of the configuration that is a list when it is well-formed
ListSection(present, type, items) == [present |-> present, type |-> type, items |-> items]

\* parallel_branches: no key, no list, and the lists of at most MaxBranches branches
MaxBranches == 2

BranchLists ==
  UNION {[1..n -> BranchChoices] : n \in 0..MaxBranches}
  \cup {<< BranchCredit, BranchIncome, BranchFraud >>, << BranchCredit, BranchIncome, BranchIncome >>}

BranchesSections ==
  {ListSection(FALSE, "list", << >>), ListSection(TRUE, "dict", << >>)}
  \cup {ListSection(TRUE, "list", branches) : branches \in BranchLists}

\* synthesis_agents: no key, no list, and lists of one or two stages, with
\* dependencies, with none, without the key, and with dependencies that are no list
SynthesisSections ==
  {ListSection(FALSE, "list", << >>), ListSection(TRUE, "str", << >>),
   ListSection(TRUE, "list", << >>), ListSection(TRUE, "list", << SynthesisRisk >>),
   ListSection(TRUE, "list", << StageConfig(Risk, "synthesis", 2, << >>, << >>) >>),
   ListSection(TRUE, "list",
     << SynthesisRisk, [SynthesisRisk EXCEPT !.keys = @ \ {"depends_on"}, !.depends_on = << >>] >>),
   ListSection(TRUE, "list",
     << [SynthesisRisk EXCEPT !.depends_on_type = "str", !.depends_on = << >>] >>),
   ListSection(TRUE, "list", << [SynthesisRisk EXCEPT !.is_dict = FALSE, !.keys = {}] >>),
   ListSection(TRUE, "list", << [SynthesisRisk EXCEPT !.keys = {"depends_on"}] >>)}

\* synchronization: no key, and sections that pass and that do not
SynchronizationSections ==
  {ListSection(FALSE, "dict", Synchronization(TRUE, {}, NoneV, NoneV, NoneV)),
   ListSection(TRUE, "dict",
     Synchronization(TRUE, {"wait_for_all_branches", "branch_timeout_seconds",
                            "partial_completion_threshold"},
                     BoolV(TRUE), IntV(30), FloatV(5, 1))),
   ListSection(TRUE, "dict",
     Synchronization(TRUE, {"wait_for_all_branches", "branch_timeout_seconds"},
                     IntV(1), IntV(0), NoneV)),
   ListSection(TRUE, "dict",
     Synchronization(TRUE, {"branch_timeout_seconds", "partial_completion_threshold"},
                     NoneV, BoolV(TRUE), FloatV(15, 1))),
   ListSection(TRUE, "dict",
     Synchronization(TRUE, {"branch_timeout_seconds", "partial_completion_threshold"},
                     NoneV, StrV(<< "3", "0" >>), StrV(<< "h", "a", "l", "f" >>))),
   ListSection(TRUE, "str", Synchronization(FALSE, {}, NoneV, NoneV, NoneV))}

\* a parallel pattern configuration
ParallelConfig(keys, pattern_type, agents, branches, synthesis, synchronization) ==
  [ParallelPattern((keys \cup (IF branches.present THEN {"parallel_branches"} ELSE {})
                         \cup (IF synthesis.present THEN {"synthesis_agents"} ELSE {})
                         \cup (IF synchronization.present THEN {"synchronization"} ELSE {})),
                   agents, branches.items, synthesis.items)
     EXCEPT !.pattern_type = pattern_type, !.parallel_branches_type = branches.type,
            !.synthesis_agents_type = synthesis.type, !.synchronization = synchronization.items]

BaseKeys == {"name", "pattern_type", "version", "agents"}

\* the configurations ParallelPatternExecutor.validate_config is called with
ParallelConfigs ==
  {ParallelConfig(BaseKeys, TextParallel, << InitialIntake >>, branches, synthesis,
                  synchronization) :
     branches \in BranchesSections, synthesis \in SynthesisSections,
     synchronization \in SynchronizationSections}
  \cup {ParallelConfig(keys, pattern_type, agents, branches, synthesis,
                       ListSection(FALSE, "dict", Synchronization(TRUE, {}, NoneV, NoneV, NoneV))) :
          keys \in {BaseKeys, BaseKeys \ {"version"}},
          pattern_type \in {TextParallel, TextSequential},
          agents \in {<< InitialIntake >>, << >>, << NotADict >>},
          branches \in {ListSection(FALSE, "list", << >>),
                        ListSection(TRUE, "list", << BranchCredit, BranchIncome >>)},
          synthesis \in {ListSection(FALSE, "list", << >>),
                         ListSection(TRUE, "list", << SynthesisRisk >>)}}

\* what validate_config gives: the list it returns, or the exception it ends with
ValidationReturn(errs) == [kind |-> "return", errors |-> errs, exception |-> NoException]

ValidationRaise(exception) == [kind |-> "raise", errors |-> << >>, exception |-> exception]

InitValidate ==
  /\ \E executor \in {"sequential", "parallel"} :
       /\ probe = [executor |-> executor]
       /\ pattern_cache = EmptyCache
       /\ pattern_files = NoFiles
       /\ loads = << >>
       /\ pattern \in IF executor = "sequential" THEN SequentialConfigs ELSE ParallelConfigs
  /\ results = NoResults
  /\ pc = "validate_call"
  /\ i = 0
  /\ agent_durations = << >>
  /\ audit_trail = << >>
  /\ errors = << >>
  /\ exc = NoException
  /\ decision = NoDecision
  /\ escaped = FALSE
  /\ invocations = << >>
  /\ completions = << >>
  /\ runner_calls = << >>
  /\ handoff_checks = << >>
  /\ blocked_at = 0
  /\ failed_at = 0
  /\ answer = NoAnswer
  /\ progress_callback = "none"
  /\ delivered = << >>
  /\ tasks = << >>
  /\ clock = 0

\* SequentialPatternExecutor.validate_config(pattern_config)
ValidateSequential ==
  /\ pc = "validate_call"
  /\ probe.executor = "sequential"
  /\ answer' = IF validate_config_raises(pattern) # NoException
                 THEN ValidationRaise(validate_config_raises(pattern))
                 ELSE ValidationReturn(validate_config(pattern))
  /\ pc' = "validate_done"
  /\ UNCHANGED << pattern, progress_callback, tasks, clock, delivered, i, results,
                  agent_durations, audit_trail, errors, exc, decision, escaped, invocations,
                  completions, runner_calls, handoff_checks, blocked_at, failed_at, probe,
                  pattern_cache, pattern_files, loads >>

\* ParallelPatternExecutor.validate_config(pattern_config)
ValidateParallel ==
  /\ pc = "validate_call"
  /\ probe.executor = "parallel"
  /\ answer' = ValidationReturn(parallel_validate_config(pattern))
  /\ pc' = "validate_done"
  /\ UNCHANGED << pattern, progress_callback, tasks, clock, delivered, i, results,
                  agent_durations, audit_trail, errors, exc, decision, escaped, invocations,
                  completions, runner_calls, handoff_checks, blocked_at, failed_at, probe,
                  pattern_cache, pattern_files, loads >>

NextValidate == ValidateSequential \/ ValidateParallel

SpecValidate == InitValidate /\ [][NextValidate]_vars

(***************************************************************************)
(* ProcessingEngine._load_pattern called again and again on one engine     *)
(***************************************************************************)

\* the pattern names _load_pattern is called with
PatternNames == {TextSequential, TextParallel}

\* a pattern file: whether yaml.safe_load can parse it, and the
\* configuration it then gives
PatternFile(parses, config) == [parses |-> parses, config |-> config]

PatternFileContents ==
  { PatternFile(TRUE, Pattern(AllKeys, TextSequential, Chain(2, << >>), NoRules, EmptyMatrix)),
    PatternFile(TRUE, Pattern(AllKeys, TextSequential, Chain(2, << >>), NoRules,
                              MatrixDenyApprove)),
    PatternFile(FALSE, << >>) }

\* the directories the engine is created on
PatternDirs == UNION {[names -> PatternFileContents] : names \in SUBSET PatternNames}

\* the number of calls of _load_pattern that are followed
MaxLoads == 3

\* the dictionary yaml.safe_load builds: every call builds a new object
LoadedObject(id, config) == [id |-> id, config |-> config]

NoObject == LoadedObject(0, << >>)

\* one call of _load_pattern: its argument, whether the name was in the
\* cache and the file in the directory when it was made, whether the file
\* was opened, and what the call gave
LoadCall(pattern_name, cached, exists, read, outcome, object) ==
  [pattern_name |-> pattern_name, cached |-> cached, exists |-> exists, read |-> read,
   outcome |-> outcome, object |-> object]

InitLoad ==
  /\ pattern = Pattern(AllKeys, TextSequential, Chain(2, << >>), NoRules, EmptyMatrix)
  /\ probe = << >>
  /\ pattern_cache = EmptyCache
  /\ pattern_files \in PatternDirs
  /\ loads = << >>
  /\ results = NoResults
  /\ pc = "load_call"
  /\ i = 0
  /\ agent_durations = << >>
  /\ audit_trail = << >>
  /\ errors = << >>
  /\ exc = NoException
  /\ decision = NoDecision
  /\ escaped = FALSE
  /\ invocations = << >>
  /\ completions = << >>
  /\ runner_calls = << >>
  /\ handoff_checks = << >>
  /\ blocked_at = 0
  /\ failed_at = 0
  /\ answer = NoObject
  /\ progress_callback = "none"
  /\ delivered = << >>
  /\ tasks = << >>
  /\ clock = 0

\* the mutant of the cache test that never finds the name
InPatternCacheNever(pattern_name, cache) == FALSE

\* "if pattern_name in self._pattern_cache"
InPatternCache(pattern_name, cache) == pattern_name \in DOMAIN cache

\* self._load_pattern(pattern_name)
LoadPattern(pattern_name) ==
  /\ Len(loads) < MaxLoads
  /\ UNCHANGED << pattern, progress_callback, tasks, clock, delivered, i, results,
                  agent_durations, audit_trail, errors, decision, escaped, invocations,
                  completions, runner_calls, handoff_checks, blocked_at, failed_at, probe,
                  pattern_files >>
  /\ \E cached \in {InPatternCache(pattern_name, pattern_cache)},
        exists \in {pattern_name \in DOMAIN pattern_files} :
       IF cached
         THEN /\ answer' = pattern_cache[pattern_name]
              /\ pattern_cache' = pattern_cache
              /\ exc' = NoException
              /\ pc' = "load_returned"
              /\ loads' = Append(loads, LoadCall(pattern_name, cached, exists, FALSE, "return",
                                                 pattern_cache[pattern_name]))
       ELSE IF ~exists
         THEN /\ answer' = NoObject
              /\ pattern_cache' = pattern_cache
              /\ exc' = Exception("FileNotFoundError",
                                  << "P", "a", "t", "t", "e", "r", "n", " ", "f", "i", "l", "e",
                                        " ", "n", "o", "t", " ", "f", "o", "u", "n", "d", ":",
                                        " " >> \o pattern_name \o << ".", "y", "a", "m", "l" >>)
              /\ pc' = "load_raised"
              /\ loads' = Append(loads, LoadCall(pattern_name, cached, exists, FALSE, "raise",
                                                 NoObject))
       ELSE IF ~pattern_files[pattern_name].parses
         THEN \* yaml.safe_load raises before the cache is written
              /\ answer' = NoObject
              /\ pattern_cache' = pattern_cache
              /\ exc' = Exception("YAMLError", << "c", "o", "u", "l", "d", " ", "n", "o", "t",
                    " ", "p", "a", "r", "s", "e", " ", "t", "h", "e", " ", "f", "i", "l", "e" >>)
              /\ pc' = "load_raised"
              /\ loads' = Append(loads, LoadCall(pattern_name, cached, exists, TRUE, "raise",
                                                 NoObject))
       ELSE \E object \in {LoadedObject(Len(loads) + 1, pattern_files[pattern_name].config)} :
              /\ answer' = object
              /\ pattern_cache' = (pattern_name :> object) @@ pattern_cache
              /\ exc' = NoException
              /\ pc' = "load_returned"
              /\ loads' = Append(loads, LoadCall(pattern_name, cached, exists, TRUE, "return",
                                                 object))

\* between two calls a pattern file is written, with the same or another content
FileWritten(pattern_name, content) ==
  /\ Len(loads) < MaxLoads
  /\ ~(pattern_name \in DOMAIN pattern_files /\ pattern_files[pattern_name] = content)
  /\ pattern_files' = (pattern_name :> content) @@ pattern_files
  /\ UNCHANGED << pattern, progress_callback, tasks, clock, delivered, i, results,
                  agent_durations, audit_trail, errors, exc, decision, escaped, invocations,
                  completions, runner_calls, handoff_checks, blocked_at, failed_at, probe,
                  answer, pc, pattern_cache, loads >>

\* between two calls a pattern file is removed
FileRemoved(pattern_name) ==
  /\ Len(loads) < MaxLoads
  /\ pattern_name \in DOMAIN pattern_files
  /\ pattern_files' = [n \in DOMAIN pattern_files \ {pattern_name} |-> pattern_files[n]]
  /\ UNCHANGED << pattern, progress_callback, tasks, clock, delivered, i, results,
                  agent_durations, audit_trail, errors, exc, decision, escaped, invocations,
                  completions, runner_calls, handoff_checks, blocked_at, failed_at, probe,
                  answer, pc, pattern_cache, loads >>

NextLoad ==
  \/ \E pattern_name \in PatternNames : LoadPattern(pattern_name)
  \/ \E pattern_name \in PatternNames, content \in PatternFileContents :
       FileWritten(pattern_name, content)
  \/ \E pattern_name \in PatternNames : FileRemoved(pattern_name)

SpecLoad == InitLoad /\ [][NextLoad]_vars

(***************************************************************************)
(* Properties of the sequential run                                        *)
(***************************************************************************)

\* C1: a valid sequential pattern without handoff rules invokes execute_agent
\* for its agents in declared order, one at a time: an agent is started only
\* after every agent before it has returned, and a run in which no agent
\* fails makes exactly one invocation per declared agent.
C1_SequentialOrder ==
  (ValidPattern(pattern) /\ GetHandoffRules(pattern) = << >>) =>
    /\ Len(invocations) <= Len(Agents)
    /\ \A k \in 1..Len(invocations) : invocations[k] = Agents[k].type
    /\ Len(completions) <= Len(invocations)
    /\ completions = SubSeq(invocations, 1, Len(completions))
    /\ Len(invocations) - Len(completions) <= 1
    /\ (Len(invocations) > Len(completions)) => (pc = "awaiting" \/ failed_at = Len(invocations))
    /\ (failed_at = 0 /\ pc \in {"executor_done", "failed", "returned"}) =>
         /\ invocations = [k \in 1..Len(Agents) |-> Agents[k].type]
         /\ completions = invocations
         /\ runner_calls = invocations

C1_Witness ==
  /\ ValidPattern(pattern)
  /\ GetHandoffRules(pattern) = << >>
  /\ pc = "executor_done"
  /\ Len(Agents) > 1
  /\ Len(invocations) = Len(Agents)

\* C2: before agent i > 1 is executed the handoff conditions are checked
\* against agent i - 1; when the check fails, agent i and the agents after it
\* are not executed, an audit entry is appended and execute returns without
\* an exception, the results of the agents before it kept in the context.
C2_HandoffGate ==
  /\ Len(handoff_checks) =
       (IF invocations = << >> THEN 0 ELSE Len(invocations) - 1) + (IF blocked_at = 0 THEN 0 ELSE 1)
  /\ \A k \in 2..Len(invocations) :
       handoff_checks[k - 1] = [from |-> Agents[k - 1].type, ok |-> "T"]
  /\ (\E k \in 1..Len(handoff_checks) : handoff_checks[k].ok # "T") => blocked_at # 0
  /\ blocked_at # 0 =>
       /\ blocked_at \in 2..Len(Agents)
       /\ handoff_checks[Len(handoff_checks)] = [from |-> Agents[blocked_at - 1].type, ok |-> "F"]
       /\ Len(invocations) = blocked_at - 1
       /\ completions = invocations
       /\ \A k \in 1..Len(completions) : completions[k] \in DOMAIN results
       /\ \E k \in 1..Len(audit_trail) :
            audit_trail[k] = Entry("handoff_not_met", Agents[blocked_at].type, << >>)
       /\ failed_at = 0
       /\ pc \in {"executor_done", "failed", "returned"}
       /\ pc = "failed" => exc.type \notin {"RuntimeError", "Exception"}

C2_Witness ==
  /\ blocked_at # 0
  /\ blocked_at < Len(Agents)
  /\ pc = "executor_done"

\* C3: when the execution of an agent times out or fails, the failure is
\* appended to the error list and to the audit trail of the context and the
\* exception leaves execute for the except clause of execute_pattern; no
\* agent declared after the failing one is executed.
C3_FailureRecorded ==
  failed_at # 0 =>
    /\ exc # NoException
    /\ \E k \in 1..Len(errors) : errors[k] = Entry("agent_failed", Agents[failed_at].type, exc.text)
    /\ \E k \in 1..Len(audit_trail) :
         audit_trail[k] = Entry("agent_failed", Agents[failed_at].type, exc.text)
    /\ Len(invocations) = failed_at
    /\ Len(completions) = failed_at - 1
    /\ pc \in {"failed", "returned"}
    /\ pc = "returned" => decision.reasoning.kind = "error"

C3_Witness ==
  /\ failed_at # 0
  /\ failed_at < Len(Agents)
  /\ exc.type = "RuntimeError"
  /\ EndsWith(exc.text, << " ", "s", "e", "c", "o", "n", "d", "s" >>)
  /\ pc = "returned"

\* C4: for a pattern that passes configuration validation no exception ever
\* leaves execute_pattern: a failure of an agent or of building the decision
\* is on its way to the except clause only, and what execute_pattern
\* returns is a LoanDecision that satisfies the constraints of its fields.
C4_AlwaysDecision ==
  ValidPattern(pattern) =>
    /\ ~escaped
    /\ pc \in {"idle", "executing", "awaiting", "executor_done", "failed", "returned"}
    /\ (exc # NoException) => (pc \in {"failed", "returned"})
    /\ (pc = "returned") => (decision # NoDecision /\ ValidLoanDecision(decision))
    /\ (pc # "returned") => (decision = NoDecision)

C4_Witness ==
  /\ ValidPattern(pattern)
  /\ pc = "returned"
  /\ failed_at = 0
  /\ exc.type = "AttributeError"
  /\ decision.decision = "manual_review"

\* C5 (amended): when the failure of an agent leaves the executor,
\* execute_pattern returns a decision for manual review with confidence 0
\* and no approved amount, rate or term, whose reason contains the first
\* ErrorReasonLimit characters of the error text; the error text is appended
\* in full to the error list and to the audit trail.
C5_ErrorDecision ==
  (failed_at # 0 /\ pc = "returned") =>
    /\ decision.decision = "manual_review"
    /\ decision.confidence_score = FloatV(0, 1)
    /\ decision.approved_amount = NoneV
    /\ decision.approved_rate = NoneV
    /\ decision.approved_term_months = NoneV
    /\ Contains(decision.decision_reason, Slice(exc.text, 0, ErrorReasonLimit))
    /\ errors[Len(errors)] = Entry("orchestration_failed", << >>, exc.text)
    /\ audit_trail[Len(audit_trail)] = Entry("orchestration_failed", << >>, exc.text)

C5_Witness ==
  /\ failed_at # 0
  /\ pc = "returned"
  /\ Len(exc.text) > ErrorReasonLimit
  /\ decision.decision = "manual_review"

\* C5 as stated: the reason of that decision contains the error text
C5_ReasonContainsErrorText ==
  (failed_at # 0 /\ pc = "returned") => Contains(decision.decision_reason, exc.text)

(***************************************************************************)
(* Properties of the handoff check                                         *)
(***************************************************************************)

\* C6 (amended): check_handoff_conditions returns True exactly when there is
\* no rule for the completed agent, or the completed agent has a recorded,
\* non-empty result and every condition of its rule is true of that agent's
\* result alone; in every other case it returns False.
C6_HandoffExactly ==
  pc = "handoff_done" =>
    LET rules == RulesByFrom(GetHandoffRules(pattern))
    IN  (answer.status = "T") <=>
          \/ probe \notin DOMAIN rules
          \/ /\ probe \in DOMAIN results
             /\ results[probe] # EmptyMap
             /\ \A k \in 1..Len(rules[probe].conditions) :
                  evaluate_condition(rules[probe].conditions[k], results[probe]) = "T"

C6_Witness ==
  /\ pc = "handoff_done"
  /\ probe \in DOMAIN RulesByFrom(GetHandoffRules(pattern))
  /\ probe \in DOMAIN results
  /\ results[probe] = EmptyMap
  /\ RulesByFrom(GetHandoffRules(pattern))[probe].conditions = << >>
  /\ answer.status = "F"

\* C6 as stated: a recorded result is enough, whatever it holds
C6_RecordedResultSuffices ==
  pc = "handoff_done" =>
    LET rules == RulesByFrom(GetHandoffRules(pattern))
    IN  (answer.status = "T") <=>
          \/ probe \notin DOMAIN rules
          \/ /\ probe \in DOMAIN results
             /\ \A k \in 1..Len(rules[probe].conditions) :
                  evaluate_condition(rules[probe].conditions[k], results[probe]) = "T"

\* C7: check_handoff_conditions never raises and fails closed: with a rule
\* for an agent that has no recorded result it returns False, and with a
\* condition whose evaluation raises (unknown field, malformed expression,
\* operands that cannot be compared) it returns False.
C7_HandoffFailClosed ==
  pc = "handoff_done" =>
    LET rules == RulesByFrom(GetHandoffRules(pattern))
    IN  /\ answer.status \in {"T", "F"}
        /\ (probe \in DOMAIN rules /\ probe \notin DOMAIN results) => answer.status = "F"
        /\ (/\ probe \in DOMAIN rules
            /\ probe \in DOMAIN results
            /\ \E k \in 1..Len(rules[probe].conditions) :
                 evaluate_condition(rules[probe].conditions[k], results[probe]) = "E")
             => answer.status = "F"

C7_Witness ==
  /\ pc = "handoff_done"
  /\ GetHandoffRules(pattern) = RulesIncomparable
  /\ probe = Intake
  /\ Intake \in DOMAIN results
  /\ evaluate_condition(CondPassed, results[Intake]) = "T"
  /\ evaluate_condition(CondIncomparable, results[Intake]) = "E"
  /\ answer.status = "F"

(***************************************************************************)
(* Properties of the decision matrix                                       *)
(***************************************************************************)

\* C8: _apply_decision_matrix returns, for the first entry in declared order
\* whose conditions are all true of the merged results, the status of that
\* entry's decision type and its description; with auto_deny before
\* auto_approve and both satisfied it returns the denial.
C8_FirstMatchWins ==
  pc = "matrix_done" =>
    LET decision_matrix == GetDecisionMatrix(pattern)
        Matches(k) ==
          \A c \in 1..Len(decision_matrix[k].conditions) :
            evaluate_condition(decision_matrix[k].conditions[c], AllResults(results)) = "T"
    IN  \A k \in 1..Len(decision_matrix) :
          (Matches(k) /\ \A j \in 1..(k - 1) : ~Matches(j)) =>
            /\ answer.kind = "return"
            /\ answer.rule = k
            /\ decision_matrix[k].has_description => answer.reasoning = decision_matrix[k].description
            /\ decision_matrix[k].decision_type = AutoDeny => answer.status = "denied"
            /\ decision_matrix[k].decision_type = AutoApprove => answer.status = "approved"
            /\ decision_matrix[k].decision_type = ManualReview => answer.status = "manual_review"

\* C9: when no entry of the decision matrix has all its conditions true (an
\* empty matrix and a context without results included),
\* _apply_decision_matrix returns MANUAL_REVIEW with the reason
\* "No decision matrix conditions matched".
C9_DefaultManualReview ==
  pc = "matrix_done" =>
    LET decision_matrix == GetDecisionMatrix(pattern)
        Matches(k) ==
          \A c \in 1..Len(decision_matrix[k].conditions) :
            evaluate_condition(decision_matrix[k].conditions[c], AllResults(results)) = "T"
    IN  (\A k \in 1..Len(decision_matrix) : ~Matches(k)) =>
          /\ answer.kind = "return"
          /\ answer.rule = 0
          /\ answer.status = "manual_review"
          /\ answer.reasoning = << "N", "o", " ", "d", "e", "c", "i", "s", "i", "o", "n", " ",
                "m", "a", "t", "r", "i", "x", " ", "c", "o", "n", "d", "i", "t", "i", "o", "n",
                "s", " ", "m", "a", "t", "c", "h", "e", "d" >>

C9_Witness ==
  /\ pc = "matrix_done"
  /\ GetDecisionMatrix(pattern) = MatrixDenyApprove
  /\ Risk \in DOMAIN results
  /\ results[Risk] = ResultPassed
  /\ Intake \in DOMAIN results
  /\ results[Intake] = ResultFailed
  /\ answer.rule = 0
  /\ answer.status = "manual_review"

\* C10: a condition of the decision matrix whose evaluation raises makes its
\* entry not match, the exception never leaves _apply_decision_matrix, and
\* the entries after it are still tried: the loop is left at the first entry
\* whose conditions are all true, entries with a failing condition passed over.
C10_ConditionErrorSkipsRule ==
  pc = "matrix_done" =>
    LET decision_matrix == GetDecisionMatrix(pattern)
        Value(k, c) == evaluate_condition(decision_matrix[k].conditions[c], AllResults(results))
        Matches(k) == \A c \in 1..Len(decision_matrix[k].conditions) : Value(k, c) = "T"
        Fails(k) == \E c \in 1..Len(decision_matrix[k].conditions) : Value(k, c) = "E"
    IN  /\ answer.exception.type \notin {"ValueError", "ConditionError"}
        /\ \A k \in 1..Len(decision_matrix) : Fails(k) => answer.rule # k
        /\ \A k \in 1..Len(decision_matrix) :
             (Matches(k) /\ \A j \in 1..(k - 1) : ~Matches(j)) => answer.rule = k
        /\ (\A k \in 1..Len(decision_matrix) : ~Matches(k)) => answer.rule = 0

C10_Witness ==
  /\ pc = "matrix_done"
  /\ GetDecisionMatrix(pattern) = MatrixWithError
  /\ evaluate_condition(MatrixWithError[1].conditions[1], AllResults(results)) = "E"
  /\ answer.rule = 2

(***************************************************************************)
(* Properties of the parallel run                                          *)
(***************************************************************************)

BranchTaskIds == {k \in 1..Len(tasks) : tasks[k].phase = "branch"}

\* C11: a step in which a stage of a branch fails (a dependency without
\* result, a timeout, an exception of the agent's execution) records the
\* failure in the audit trail and in the error list, leaves every other
\* coroutine as it is, and raises nothing out of execute; the branch phase
\* is left only for the synthesis phase, with every coroutine finished and
\* none cancelled, and execute returns only after every synthesis agent ran.
C11_BranchFailureIsolated ==
  [][/\ \A k \in 1..Len(tasks') :
          (/\ k \in BranchTaskIds
           /\ tasks[k].pc # "failed"
           /\ tasks'[k].pc = "failed")
            => /\ \E e \in (Len(errors) + 1)..Len(errors') :
                    /\ errors'[e].k = "branch_failure"
                    /\ errors'[e].a = tasks[k].agent.type
               /\ \E e \in (Len(audit_trail) + 1)..Len(audit_trail') :
                    /\ audit_trail'[e].k = "branch_failure"
                    /\ audit_trail'[e].a = tasks[k].agent.type
               /\ \A j \in 1..Len(tasks) : j # k => tasks'[j] = tasks[j]
               /\ exc' = NoException
               /\ pc' = pc
     /\ pc = "branches" => exc' = NoException /\ pc' \in {"branches", "synthesis"}
     /\ (pc = "branches" /\ pc' = "synthesis") =>
          \A k \in BranchTaskIds : tasks'[k].pc \in {"done", "failed"}
     /\ pc' = "executor_done" =>
          \A a \in 1..Len(SynthesisAgents(pattern)) :
            \E k \in 1..Len(tasks') :
              /\ tasks'[k].phase = "synthesis"
              /\ tasks'[k].agent = SynthesisAgents(pattern)[a]
              /\ tasks'[k].pc = "done"]_vars

C11_Witness ==
  /\ pc = "executor_done"
  /\ exc = NoException
  /\ \E k \in BranchTaskIds : tasks[k].pc = "failed" /\ tasks[k].outcome = "timeout"
  /\ \E k \in BranchTaskIds : tasks[k].pc = "done"
  /\ \E k \in 1..Len(tasks) : tasks[k].phase = "synthesis" /\ tasks[k].pc = "done"
  /\ \E e \in 1..Len(errors) : errors[e].k = "branch_failure"

\* C12: the phases follow each other: a coroutine of a branch exists only
\* when every initial agent has returned, and started no earlier; a synthesis
\* agent is executed only when every coroutine of every branch has finished,
\* and started no earlier.
C12_PhasesOrdered ==
  /\ \A k \in BranchTaskIds :
       \A a \in 1..Len(InitialAgents(pattern)) :
         \E j \in 1..Len(tasks) :
           /\ tasks[j].phase = "initial"
           /\ tasks[j].agent = InitialAgents(pattern)[a]
           /\ tasks[j].pc = "done"
           /\ tasks[k].pc # "created" => tasks[j].finished_at <= tasks[k].started_at
  /\ \A k \in 1..Len(tasks) :
       tasks[k].phase = "synthesis" =>
         /\ pc \notin {"initial", "branches"}
         /\ \A j \in BranchTaskIds :
              /\ tasks[j].pc \in {"done", "failed"}
              /\ tasks[j].finished_at <= tasks[k].started_at

C12_Witness ==
  /\ pc = "executor_done"
  /\ Len(tasks) = 4
  /\ \A k \in 1..Len(tasks) : tasks[k].pc = "done"
  /\ tasks[1].phase = "initial"
  /\ tasks[4].phase = "synthesis"
  /\ tasks[1].finished_at < tasks[2].finished_at
  /\ tasks[3].finished_at < tasks[4].finished_at

\* the time a coroutine took
Elapsed(task) == task.finished_at - task.started_at

\* C13: the coroutines of all branches are started together, at the time
\* gather is awaited, and gather returns at the time the last of them
\* finishes: the branch phase takes as long as its slowest coroutine, less
\* than the coroutines take together when two of them had to wait.
C13_BranchesConcurrent ==
  /\ \A j, k \in BranchTaskIds :
       (tasks[j].pc # "created" /\ tasks[k].pc # "created")
         => tasks[j].started_at = tasks[k].started_at
  /\ pc = "branches" =>
       \A j, k \in BranchTaskIds :
         (tasks[j].pc = "created" /\ tasks[k].pc # "created") => tasks[k].started_at = clock
  /\ (/\ pc = "synthesis"
      /\ BranchTaskIds # {}
      /\ \A k \in 1..Len(tasks) : tasks[k].phase # "synthesis")
       => /\ \E k \in BranchTaskIds : clock - tasks[k].started_at = Elapsed(tasks[k])
          /\ \A k \in BranchTaskIds : Elapsed(tasks[k]) <= clock - tasks[k].started_at
          /\ \A j, k \in BranchTaskIds :
               (j # k /\ Elapsed(tasks[j]) > 0 /\ Elapsed(tasks[k]) > 0)
                 => clock - tasks[k].started_at < Elapsed(tasks[j]) + Elapsed(tasks[k])

C13_Witness ==
  /\ pc = "synthesis"
  /\ \A k \in 1..Len(tasks) : tasks[k].phase # "synthesis"
  /\ \E j, k \in BranchTaskIds :
       /\ tasks[j].pc = "done"
       /\ tasks[k].pc = "done"
       /\ Elapsed(tasks[j]) = 2
       /\ Elapsed(tasks[k]) = 1
       /\ clock - tasks[j].started_at = 2

\* C14: in a pattern whose branches pass validation, a stage of a branch is
\* not started before the stage declared before it in the same branch has
\* finished.
C14_BranchOrder ==
  validate_parallel_branches(pattern.parallel_branches) = << >> =>
    \A j, k \in BranchTaskIds :
      (j < k /\ tasks[j].branch = tasks[k].branch /\ tasks[k].pc # "created")
        => /\ tasks[j].pc \in {"done", "failed"}
           /\ tasks[j].finished_at <= tasks[k].started_at

(***************************************************************************)
(* Properties of the condition evaluator                                   *)
(***************************************************************************)

\* C15: for a condition "field op literal" with op one of OPERATORS, the
\* field among the values and operands the operator can compare,
\* evaluate_condition returns the operator applied to the field's value and
\* the parsed literal; a compound of such terms joined by " and " is true
\* exactly when all its terms are, one joined by " or " exactly when at least
\* one of its terms is.
C15_EvaluateAppliesOperator ==
  LET Value(t) == ApplyOperator(t.op, probe.context[t.field], parse_value(t.literal))
      WellFormed(t) ==
        /\ t.op \in OPERATORS
        /\ t.field \in DOMAIN probe.context
        /\ Value(t) \in {"T", "F"}
      terms == probe.terms
  IN  (/\ pc = "evaluate_done"
       /\ terms # << >>
       /\ \A k \in 1..Len(terms) : WellFormed(terms[k]))
        => IF Len(terms) = 1 THEN answer.status = Value(terms[1])
           ELSE IF probe.connective = "and"
             THEN (answer.status = "T") <=> (\A k \in 1..Len(terms) : Value(terms[k]) = "T")
           ELSE (answer.status = "T") <=> (\E k \in 1..Len(terms) : Value(terms[k]) = "T")

\* C16 (amended): for a condition without " and " and " or " that is not
\* None, empty or blank, evaluate_condition raises ValueError, and returns no
\* truth value, when the condition is not of the form identifier operator
\* value, names a field that is not among the values, uses an operator that
\* is not one of OPERATORS, or compares operands the operator cannot compare.
C16_EvaluateRaises ==
  LET Defective(t) ==
        \/ t.field \notin DOMAIN probe.context
        \/ t.op \notin OPERATORS
        \/ ApplyOperator(t.op, probe.context[t.field], parse_value(t.literal)) = "E"
  IN  (/\ pc = "evaluate_done"
       /\ probe.connective = "none"
       /\ probe.condition # NoneCondition
       /\ Strip(probe.condition) # << >>
       /\ probe.terms = << >> \/ Defective(probe.terms[1]))
        => answer.status = "E"

C16_Witness ==
  /\ pc = "evaluate_done"
  /\ probe.connective = "none"
  /\ probe.terms # << >>
  /\ probe.terms[1].field = FieldTier
  /\ probe.terms[1].op = OpGt
  /\ probe.terms[1].literal = << "6", "5", "0" >>
  /\ answer.status = "E"

\* C16 as stated: every condition that is not of the form identifier operator
\* value, the empty and the blank one included, raises
C16_EveryMalformedRaises ==
  (/\ pc = "evaluate_done"
   /\ probe.connective = "none"
   /\ probe.terms = << >>)
    => answer.status = "E"

C18_ResultSetOnce ==
  [][ValidPattern(pattern) =>
       \A a \in DOMAIN results : a \in DOMAIN results' /\ results'[a] = results[a]]_vars

\* C19: every step of a run leaves the audit trail as it was or appends to
\* its end, so its entries are never removed, reordered or modified, and
\* the error list only grows.
C19_AppendOnly ==
  [][/\ Len(audit_trail') >= Len(audit_trail)
     /\ SubSeq(audit_trail', 1, Len(audit_trail)) = audit_trail
     /\ Len(errors') >= Len(errors)
     /\ SubSeq(errors', 1, Len(errors)) = errors]_vars

C19_Witness ==
  /\ pc = "returned"
  /\ Len(errors) = 2
  /\ Len(audit_trail) > 4
  /\ audit_trail[1].k = "started"
  /\ audit_trail[Len(audit_trail)].k = "orchestration_failed"

\* C20: a progress callback that raises on every event leaves the run as it
\* is with one that returns: its exception never is the exception of the run
\* and never enters the error list or the audit trail, and the run goes on
\* notifying as it does with a callback that returns: one agent_started per
\* invocation of execute_agent, one agent_thinking per request sent, one
\* agent_completed per result stored and one agent_error per failed agent,
\* up to the decision execute_pattern returns.
C20_SinkNeverAffectsRun ==
  LET Count(type) == Cardinality({k \in 1..Len(delivered) : delivered[k].type = type})
      Stored == Cardinality({k \in 1..Len(audit_trail) : audit_trail[k].k = "agent_completed"})
  IN  /\ exc # SinkException
      /\ \A k \in 1..Len(errors) : errors[k].e # SinkException.text
      /\ \A k \in 1..Len(audit_trail) : audit_trail[k].e # SinkException.text
      /\ pc = "returned" => ~Contains(decision.decision_reason, SinkException.text)
      /\ progress_callback = "none" => delivered = << >>
      /\ progress_callback \in {"accepts", "raises"} =>
           /\ Count("agent_started") = Len(invocations)
           /\ Count("agent_thinking") = Len(runner_calls)
           /\ Count("agent_completed") = Stored
           /\ Count("agent_error") = IF failed_at # 0 THEN 1 ELSE 0
           /\ \A k \in 1..Len(completions) : completions[k] \in DOMAIN results

C20_Witness ==
  /\ progress_callback = "raises"
  /\ pc = "returned"
  /\ failed_at = 0
  /\ exc = NoException
  /\ Len(Agents) > 1
  /\ Len(completions) = Len(Agents)
  /\ Len(delivered) = 3 * Len(Agents)
  /\ decision.decision = "manual_review"

(***************************************************************************)
(* Properties of the validation                                            *)
(***************************************************************************)

\* C21 (amended): a pattern whose executor reports configuration errors
\* aborts the run before any stage runs: execute_agent is never invoked, no
\* request is sent and no result is recorded. The context exists by then: it
\* holds the audit entry of the start, the failure is appended to its audit
\* trail and error list, and execute_pattern returns the error decision.
C21_InvalidConfigRunsNoStage ==
  (/\ pattern.exists
   /\ get_executor(pattern) = NoException
   /\ validate_config(pattern) # << >>)
    => /\ invocations = << >>
       /\ runner_calls = << >>
       /\ results = NoResults
       /\ handoff_checks = << >>
       /\ pc \in {"idle", "failed", "returned"}
       /\ pc # "idle" => audit_trail[1].k = "started"
       /\ pc = "returned" =>
            /\ Len(errors) = 1
            /\ errors[1].k = "orchestration_failed"
            /\ audit_trail[Len(audit_trail)].k = "orchestration_failed"
            /\ decision.decision = "manual_review"

C21_Witness ==
  /\ pattern.exists
  /\ get_executor(pattern) = NoException
  /\ Len(validate_config(pattern)) = 1
  /\ pc = "returned"
  /\ invocations = << >>
  /\ Len(audit_trail) = 2
  /\ decision.decision = "manual_review"

\* C21 as stated: the run is aborted before the context is created, so
\* nothing has been written to a context when the validation fails
C21_AbortsBeforeContext ==
  (/\ pattern.exists
   /\ get_executor(pattern) = NoException
   /\ validate_config(pattern) # << >>)
    => /\ invocations = << >>
       /\ audit_trail = << >>
       /\ errors = << >>

\* C22: a condition that holds both " and " and " or " between its terms is
\* a grammar error: evaluate_condition raises ValueError and returns no
\* truth value.
C22_MixedConnectivesRaise ==
  (pc = "evaluate_done" /\ probe.connective = "mixed") => answer.status = "E"

\* C23 (amended): _parse_value gives a quoted text its content as a string,
\* a bracketed text the list of its parsed items, then an integer, a float,
\* a boolean for true / false in any case, None for none in any case, and
\* every other text, "null" included, as a string.
C23_ParsePriority ==
  pc = "parse_done" => answer = probe.amended

C23_Witness ==
  /\ pc = "parse_done"
  /\ probe.text = << "[", "n", "u", "l", "l", ",", " ", " ", "'", "t", "r", "u", "e", "'", " ",
        "]" >>
  /\ answer = ListV(<< StrV(<< "n", "u", "l", "l" >>), StrV(<< "t", "r", "u", "e" >>) >>)

\* C23 as stated: "null" gives None as "none" does
C23_NullIsNone ==
  pc = "parse_done" => answer = probe.claimed

(***************************************************************************)
(* Properties of conditions that are no condition                          *)
(***************************************************************************)

\* C24: evaluate_condition returns False and does not raise for the empty
\* condition, for a condition of white space only and for None, with every
\* values map, the empty one included.
C24_BlankConditionIsFalse ==
  (pc = "evaluate_done" /\ (probe.condition = NoneCondition \/ Strip(probe.condition) = << >>))
    => answer.status = "F"

C24_Witness ==
  /\ pc = "evaluate_done"
  /\ probe.condition = NoneCondition
  /\ probe.context = NoValues
  /\ answer.status = "F"

(***************************************************************************)
(* Properties of the dependency check of a branch                          *)
(***************************************************************************)

\* the coroutine k of a branch runs its first step
BranchAgentStarts(k) ==
  /\ k \in 1..Len(tasks)
  /\ tasks[k].phase = "branch"
  /\ tasks[k].pc = "created"
  /\ tasks'[k].pc # "created"

\* a dependency of the stage has no result in the context
LacksDependency(agent) ==
  \E d \in 1..Len(agent.depends_on) : agent.depends_on[d] \notin DOMAIN results

\* C25: when a coroutine of a branch begins, execute_agent is called for its
\* stage only if every dependency the stage declares has a result in the
\* context at that moment; otherwise the coroutine ends as failed, execute_agent
\* and Runner.run are not called for it, and the failure is the new last
\* entry of the audit trail and of the error list.
C25_BranchChecksDependencies ==
  [][\A k \in 1..Len(tasks) :
       BranchAgentStarts(k) =>
         IF LacksDependency(tasks[k].agent)
           THEN /\ invocations' = invocations
                /\ runner_calls' = runner_calls
                /\ tasks'[k].pc = "failed"
                /\ Len(errors') = Len(errors) + 1
                /\ errors'[Len(errors')].k = "branch_failure"
                /\ errors'[Len(errors')].a = tasks[k].agent.type
                /\ audit_trail'[Len(audit_trail')] = errors'[Len(errors')]
                /\ results' = results
           ELSE invocations' = Append(invocations, tasks[k].agent.type)]_vars

\* the second branch depends on the first, which is awaiting its answer: it
\* failed without a call, and the first branch was called
C25_Witness ==
  /\ \E k \in 1..Len(tasks) :
       /\ tasks[k].phase = "branch"
       /\ tasks[k].agent.type = Income
       /\ tasks[k].agent.depends_on = << Intake, Credit >>
       /\ tasks[k].pc = "failed"
  /\ invocations = << Intake, Credit >>
  /\ \E e \in 1..Len(errors) : errors[e].k = "branch_failure" /\ errors[e].a = Income
  /\ \E e \in 1..Len(audit_trail) : audit_trail[e].k = "branch_failure" /\ audit_trail[e].a = Income

(***************************************************************************)
(* Properties of validate_config                                           *)
(***************************************************************************)

\* the branches a configuration declares
DeclaredBranches(config) ==
  IF "parallel_branches" \in config.keys /\ config.parallel_branches_type = "list"
    THEN config.parallel_branches ELSE << >>

\* the synthesis stages a configuration declares
DeclaredSynthesis(config) ==
  IF "synthesis_agents" \in config.keys /\ config.synthesis_agents_type = "list"
    THEN config.synthesis_agents ELSE << >>

FewBranches(config) == Len(DeclaredBranches(config)) < 2

SameBranchName(config) ==
  \E a, b \in 1..Len(DeclaredBranches(config)) :
    /\ a < b
    /\ DeclaredBranches(config)[a].is_dict /\ "branch_name" \in DeclaredBranches(config)[a].keys
    /\ DeclaredBranches(config)[b].is_dict /\ "branch_name" \in DeclaredBranches(config)[b].keys
    /\ DeclaredBranches(config)[a].branch_name = DeclaredBranches(config)[b].branch_name

BranchWithoutStage(config) ==
  \E b \in 1..Len(DeclaredBranches(config)) :
    /\ DeclaredBranches(config)[b].is_dict
    /\ \/ "agents" \notin DeclaredBranches(config)[b].keys
       \/ DeclaredBranches(config)[b].agents_type # "list"
       \/ DeclaredBranches(config)[b].agents = << >>

SynthesisWithoutDependencies(config) ==
  \E k \in 1..Len(DeclaredSynthesis(config)) :
    /\ DeclaredSynthesis(config)[k].is_dict
    /\ "depends_on" \notin DeclaredSynthesis(config)[k].keys

\* C26: ParallelPatternExecutor.validate_config returns a list that is not
\* empty for every configuration that declares fewer than 2 branches, two
\* branches of one name, a branch without a stage, or a synthesis stage
\* without depends_on.
C26_ParallelValidationReports ==
  (/\ pc = "validate_done"
   /\ probe.executor = "parallel"
   /\ \/ FewBranches(pattern)
      \/ SameBranchName(pattern)
      \/ BranchWithoutStage(pattern)
      \/ SynthesisWithoutDependencies(pattern))
    => (answer.kind = "return" /\ answer.errors # << >>)

\* every entry of the stage list is a dictionary that has a type
StagesDeclared(config) ==
  "agents" \in config.keys =>
    /\ config.agents_type = "list"
    /\ \A k \in 1..Len(config.agents) : config.agents[k].is_dict /\ "type" \in config.agents[k].keys

\* the handoff rules name declared stages and hold conditions that are a
\* list of strings
RulesWellFormed(config) ==
  "handoff_rules" \in config.keys =>
    /\ config.handoff_rules_type = "list"
    /\ \A r \in 1..Len(config.handoff_rules) :
         LET rule == config.handoff_rules[r]
         IN  /\ {"from", "to"} \subseteq rule.keys
             /\ \E k \in 1..Len(GetAgents(config)) : GetAgents(config)[k].type = rule.from
             /\ \E k \in 1..Len(GetAgents(config)) : GetAgents(config)[k].type = rule.to
             /\ "conditions" \in rule.keys =>
                  /\ rule.conditions_type = "list"
                  /\ \A c \in 1..Len(rule.conditions) : rule.conditions[c] # NoneCondition

\* the known stages of a sequential pattern with its required fields
StagesWellFormed(config) ==
  /\ {"name", "pattern_type", "version", "agents"} \subseteq config.keys
  /\ config.pattern_type = TextSequential
  /\ Len(config.agents) >= 2
  /\ \A k \in 1..Len(config.agents) :
       /\ AgentKeys \subseteq config.agents[k].keys
       /\ config.agents[k].type \in KnownAgentTypes
  /\ config.agents[1].depends_on = << >>

\* stage k names the stage before it among its dependencies
DependsOnPrevious(config, k) ==
  \E d \in 1..Len(config.agents[k].depends_on) :
    config.agents[k].depends_on[d] = config.agents[k - 1].type

\* C27 (amended): for a pattern of stage dictionaries that have a type,
\* SequentialPatternExecutor.validate_config returns a list; the list is empty
\* for a well-formed chain, and holds an error when there are fewer than 2
\* stages, when a rule's from or to names no declared stage, when a rule's
\* conditions are no list of strings, when the first stage declares
\* dependencies, and when a later stage declares dependencies and the stage
\* before it is not among them.
C27_SequentialValidation ==
  (pc = "validate_done" /\ probe.executor = "sequential" /\ StagesDeclared(pattern)) =>
    /\ answer.kind = "return"
    /\ answer.errors = << >> <=>
         /\ StagesWellFormed(pattern)
         /\ RulesWellFormed(pattern)
         /\ \A k \in 2..Len(pattern.agents) :
              pattern.agents[k].depends_on = << >> \/ DependsOnPrevious(pattern, k)

C27_Witness ==
  /\ pc = "validate_done"
  /\ probe.executor = "sequential"
  /\ Len(pattern.agents) = 3
  /\ pattern.agents[3].depends_on = << Income >>
  /\ answer.kind = "return"
  /\ answer.errors = << << "A", "g", "e", "n", "t", " ", "'", "c", "r", "e", "d", "i", "t", "'",
        " ", "s", "h", "o", "u", "l", "d", " ", "d", "e", "p", "e", "n", "d", " ", "o", "n",
        " ", "p", "r", "e", "v", "i", "o", "u", "s", " ", "a", "g", "e", "n", "t", " ", "'",
        "r", "i", "s", "k", "'", " ", "i", "n", " ", "s", "e", "q", "u", "e", "n", "t", "i",
        "a", "l", " ", "p", "a", "t", "t", "e", "r", "n" >> >>

\* C27 as stated: a later stage that does not depend on the stage before it,
\* one without dependencies included, is an error
C27_LaterStageMustDepend ==
  (pc = "validate_done" /\ probe.executor = "sequential" /\ StagesDeclared(pattern)) =>
    /\ answer.kind = "return"
    /\ answer.errors = << >> <=>
         /\ StagesWellFormed(pattern)
         /\ RulesWellFormed(pattern)
         /\ \A k \in 2..Len(pattern.agents) : DependsOnPrevious(pattern, k)

\* C28: validate_config returns a list for every configuration and never
\* raises, the stage list being missing, empty, no list, or holding entries
\* that are no dictionary or have no type.
C28_ValidateNeverRaises ==
  pc = "validate_done" => answer.kind = "return"

(***************************************************************************)
(* Properties of the merged results                                        *)
(***************************************************************************)

\* f"{agent_type}_{k}"
MergedKey(agent_type, k) == agent_type \o << "_" >> \o k

\* C29: the map _apply_decision_matrix evaluates the conditions against
\* holds, for every agent type that has a result in the context, whatever its
\* name, and every field of the result, the field's value under the key
\* agent type, "_", field, and holds no other key.
C29_MergedMapHoldsEveryResult ==
  pc = "matrix_done" =>
    /\ \A agent_type \in DOMAIN results :
         \A k \in DOMAIN results[agent_type] :
           /\ MergedKey(agent_type, k) \in DOMAIN AllResults(results)
           /\ AllResults(results)[MergedKey(agent_type, k)] = results[agent_type][k]
    /\ \A key \in DOMAIN AllResults(results) :
         \E agent_type \in DOMAIN results :
           \E k \in DOMAIN results[agent_type] : key = MergedKey(agent_type, k)

(***************************************************************************)
(* Properties of a run that a handoff check stopped                        *)
(***************************************************************************)

\* C30: a run that a failed handoff check stopped ends without an entry in
\* the error list, and its decision is the one _apply_decision_matrix gives
\* for the results recorded so far, not the error decision.
C30_HandoffBlockIsNoError ==
  (pc = "returned" /\ blocked_at > 0) =>
    /\ errors = << >>
    /\ \E attr_text \in AttributeErrorTexts :
         \E m \in {apply_decision_matrix(GetDecisionMatrix(pattern), results, attr_text)} :
           /\ m.kind = "return"
           /\ decision.decision = m.status
           /\ decision.decision_reason = Slice(m.reasoning, 0, ReasonLimit)
           /\ decision.reasoning.kind = "summary"

(***************************************************************************)
(* Properties of the choice of the executor                                *)
(***************************************************************************)

\* C31: the engine has an executor for the pattern type parallel as it has
\* one for sequential: execute_pattern on a parallel pattern returns a
\* decision made by parallel_orchestrator, not the error decision for a
\* pattern type without executor.
C31_ParallelPatternHasExecutor ==
  (pc = "returned" /\ pattern.pattern_type = TextParallel
     /\ "pattern_type" \in pattern.keys)
    => /\ get_executor(pattern) = NoException
       /\ decision.decision_maker = << "p", "a", "r", "a", "l", "l", "e", "l", "_", "o", "r",
             "c", "h", "e", "s", "t", "r", "a", "t", "o", "r" >>

(***************************************************************************)
(* Properties of the pattern cache                                         *)
(***************************************************************************)

\* a call that returned, and a later call with the same name
LaterLoads ==
  {jk \in (1..Len(loads)) \X (1..Len(loads)) :
     /\ jk[1] < jk[2]
     /\ loads[jk[1]].pattern_name = loads[jk[2]].pattern_name
     /\ loads[jk[1]].outcome = "return"}

\* the cache holds for every name the object the first call that returned gave
CacheKeepsFirst ==
  \A jk \in LaterLoads :
    /\ loads[jk[2]].outcome = "return"
    /\ loads[jk[2]].object = loads[jk[1]].object
    /\ ~loads[jk[2]].read

\* a name without cache entry and without file makes the call raise
MissingRaises ==
  \A k \in 1..Len(loads) :
    (~loads[k].cached /\ ~loads[k].exists)
      => loads[k].outcome = "raise" /\ ~loads[k].read

\* the step is a call of _load_pattern that raised
LoadRaised ==
  /\ Len(loads') = Len(loads) + 1
  /\ loads'[Len(loads')].outcome = "raise"

\* C32: once a call of _load_pattern returned, every later call with that
\* name returns the very same object without opening the file, whatever
\* became of the file; a call for a name without file and cache entry
\* raises, and a call that raises leaves the cache as it was.
C32_PatternCached ==
  /\ [](CacheKeepsFirst /\ MissingRaises)
  /\ [][LoadRaised => pattern_cache' = pattern_cache]_vars

\* a second call returned the object of the first although the file had
\* another content by then, and a call for a missing pattern raised
C32_Witness ==
  /\ Len(loads) = 3
  /\ loads[1].outcome = "return" /\ loads[1].read
  /\ loads[2].pattern_name = loads[1].pattern_name
  /\ loads[2].object = loads[1].object
  /\ loads[2].exists
  /\ pattern_files[loads[1].pattern_name].config # loads[1].object.config
  /\ loads[3].outcome = "raise" /\ ~loads[3].exists
  /\ DOMAIN pattern_cache = {loads[1].pattern_name}

(***************************************************************************)
(* Properties of a stage that failed                                       *)
(***************************************************************************)

\* the stage at position k is the first of its type in the pattern
FirstOfType(k) == \A j \in 1..(k - 1) : Agents[j].type # Agents[k].type

\* C33: when execute_agent recorded a failure for a stage and raised, the
\* context holds no result of that stage; every result the context holds is
\* the result of a stage that execute_agent returned for.
C33_FailedStageHasNoResult ==
  /\ (pc = "failed" /\ failed_at > 0 /\ errors # << >> /\ FirstOfType(failed_at))
       => Agents[failed_at].type \notin DOMAIN results
  /\ \A agent_type \in DOMAIN results :
       pc \in {"executing", "executor_done", "failed", "returned"}
         => \E k \in 1..Len(completions) : completions[k] = agent_type

(***************************************************************************)
(* Properties of the events a progress callback is called with             *)
(***************************************************************************)

\* where one execution of an agent stands after an event, "bad" when the
\* event is out of order: agent_started, then agent_thinking or not, then
\* agent_completed or agent_error, all for the same agent
AfterEvent(at, event) ==
  IF at.phase = "idle"
    THEN IF event.type = "agent_started" THEN [phase |-> "started", agent |-> event.agent]
         ELSE [phase |-> "bad", agent |-> event.agent]
  ELSE IF at.phase = "bad" \/ event.agent # at.agent
    THEN [phase |-> "bad", agent |-> event.agent]
  ELSE IF event.type = "agent_thinking" /\ at.phase = "started"
    THEN [phase |-> "thinking", agent |-> at.agent]
  ELSE IF event.type \in {"agent_completed", "agent_error"}
    THEN [phase |-> "idle", agent |-> << >>]
  ELSE [phase |-> "bad", agent |-> event.agent]

RECURSIVE AfterEvents(_, _)
\* where the execution stands after the first n events of the log
AfterEvents(log, n) ==
  IF n = 0 THEN [phase |-> "idle", agent |-> << >>]
  ELSE AfterEvent(AfterEvents(log, n - 1), log[n])

\* C34: the events the progress callback is called with come, for every
\* execution of an agent, in the order agent_started, agent_thinking (once
\* for every request sent to the runner), then one of agent_completed and
\* agent_error, which every execution that ended has, and never both.
C34_EventOrder ==
  progress_callback # "none" =>
    /\ AfterEvents(delivered, Len(delivered)).phase # "bad"
    /\ Cardinality({k \in 1..Len(delivered) : delivered[k].type = "agent_thinking"})
         = Len(runner_calls)
    /\ pc \in {"executing", "failed", "executor_done", "returned"}
         => AfterEvents(delivered, Len(delivered)).phase = "idle"

(***************************************************************************)
(* Properties of the handoff check on an empty result                      *)
(***************************************************************************)

\* C35: with a rule for the completed agent and an empty map recorded as
\* that agent's result, check_handoff_conditions returns False, whatever
\* the conditions of the rule are and also when it has none.
C35_EmptyResultBlocks ==
  (/\ pc = "handoff_done"
   /\ probe \in DOMAIN RulesByFrom(GetHandoffRules(pattern))
   /\ probe \in DOMAIN results
   /\ DOMAIN results[probe] = {})
    => answer.status = "F"

\* the rule from risk to credit has no conditions and risk returned an empty map
C35_Witness ==
  /\ pc = "handoff_done"
  /\ GetHandoffRules(pattern) = RulesMissingField
  /\ probe = Risk
  /\ Risk \in DOMAIN results
  /\ results[Risk] = ResultEmpty
  /\ RulesByFrom(RulesMissingField)[Risk].conditions = << >>
  /\ answer.status = "F"

(***************************************************************************)
(* Properties of the rule a handoff check applies                          *)
(***************************************************************************)

\* the positions of the rules declared for from_agent
RulesFrom(from_agent) ==
  {k \in 1..Len(GetHandoffRules(pattern)) : GetHandoffRules(pattern)[k].from = from_agent}

\* what the rule at position k gives for the result of from_agent, its "to" left aside
RuleHolds(k, from_agent) ==
  /\ from_agent \in DOMAIN results
  /\ DOMAIN results[from_agent] # {}
  /\ \A c \in 1..Len(GetHandoffRules(pattern)[k].conditions) :
       evaluate_condition(GetHandoffRules(pattern)[k].conditions[c], results[from_agent]) = "T"

\* the step checks the handoff before the stage at position i
HandoffChecked == Len(handoff_checks') = Len(handoff_checks) + 1

\* C36: the handoff check before stage i is made for the type of stage i-1
\* and gives what the last declared rule with that "from" gives, whatever
\* the "to" of that rule and whatever earlier rules with the same "from"
\* give; without such a rule the check passes. The run stops exactly when
\* the check does not pass.
C36_LastRuleGates ==
  [][HandoffChecked =>
       \E from_agent \in {Agents[i - 1].type} :
         /\ handoff_checks'[Len(handoff_checks')].from = from_agent
         /\ (handoff_checks'[Len(handoff_checks')].ok = "T")
              <=> \/ RulesFrom(from_agent) = {}
                  \/ \E k \in RulesFrom(from_agent) :
                       /\ \A j \in RulesFrom(from_agent) : j <= k
                       /\ RuleHolds(k, from_agent)
         /\ (blocked_at' = i) <=> (handoff_checks'[Len(handoff_checks')].ok # "T")]_vars

\* intake passed to risk under the last rule, which names credit, although
\* the first rule, which names risk, cannot hold
C36_Witness ==
  /\ GetHandoffRules(pattern) = RulesSameFromOtherTo
  /\ Len(handoff_checks) >= 1
  /\ handoff_checks[1].from = Intake
  /\ handoff_checks[1].ok = "T"
  /\ Len(invocations) >= 2
  /\ invocations[2] = Risk
  /\ ~RuleHolds(1, Intake)

(***************************************************************************)
(* Properties of the approved amount, rate and term                        *)
(***************************************************************************)

\* C37: a decision execute_pattern returns with an outcome other than
\* approved has no approved amount, no approved rate and no approved term,
\* be it the decision the matrix resolved or the error decision.
C37_OnlyApprovedCarriesTerms ==
  (pc = "returned" /\ decision.decision # LoanDecisionStatus["APPROVED"]) =>
    /\ decision.approved_amount = NoneV
    /\ decision.approved_rate = NoneV
    /\ decision.approved_term_months = NoneV

\* the risk agent recommended an amount, a rate and a term, and the
\* decision the matrix resolved is for manual review
C37_Witness ==
  /\ pc = "returned"
  /\ decision.reasoning.kind = "summary"
  /\ decision.decision = LoanDecisionStatus["MANUAL_REVIEW"]
  /\ Risk \in DOMAIN results
  /\ results[Risk] = ResultRecommends
  /\ decision.approved_amount = NoneV

(***************************************************************************)
(* Properties of failures outside the branches                             *)
(***************************************************************************)

\* the coroutines of the given phases whose execute_agent raised
FailedIn(phases) == {k \in 1..Len(tasks) : tasks[k].phase \in phases /\ tasks[k].pc = "failed"}

\* C38: in a parallel run the failure of an initial or of a synthesis stage
\* leaves execute with the exception of that stage, and only such a failure
\* does: while branch stages alone have failed, execute goes on. After the
\* failure of an initial stage no coroutine of a branch is created and no
\* branch or synthesis stage is invoked.
C38_OnlyBranchFailuresIsolated ==
  /\ (FailedIn({"initial", "synthesis"}) # {}) <=> (pc = "raised")
  /\ pc = "raised" => exc # NoException /\ Cardinality(FailedIn({"initial", "synthesis"})) = 1
  /\ FailedIn({"initial"}) # {} =>
       /\ \A k \in 1..Len(tasks) : tasks[k].phase = "initial"
       /\ Len(invocations) <= Len(InitialAgents(pattern))
       /\ \A k \in 1..Len(invocations) : invocations[k] = InitialAgents(pattern)[k].type

\* a branch stage failed and the run went on to the synthesis stage, whose
\* failure left execute
C38_Witness ==
  /\ pc = "raised"
  /\ FailedIn({"branch"}) # {}
  /\ FailedIn({"synthesis"}) # {}
  /\ \E k \in 1..Len(errors) : errors[k].k = "branch_failure"

(***************************************************************************)
(* Properties of the durations and the results of the context              *)
(***************************************************************************)

\* the agent types context.agent_durations has a key for
TimedAgents == {agent_durations[k].agent : k \in 1..Len(agent_durations)}

\* C39: at every moment of a run the agent types with a duration in
\* context.agent_durations are the agent types with a result in the
\* context, so that _build_decision_reasoning, which goes through the
\* durations, finds a result for every agent and never raises for want of one.
C39_DurationsMatchResults ==
  /\ TimedAgents = DOMAIN results
  /\ \A k \in ReasoningFailures(results, agent_durations) :
       agent_durations[k].agent \in DOMAIN results
  /\ exc.type # "AttributeError" \/ exc.text \in AttributeErrorTexts

\* two stages returned and the summary of the decision names the two
C39_Witness ==
  /\ pc = "returned"
  /\ decision.reasoning.kind = "summary"
  /\ Len(decision.reasoning.agents) = 2
  /\ TimedAgents = {Intake, Risk}
  /\ DOMAIN results = {Intake, Risk}

====
